---- MODULE Spec2Model ----
(***************************************************************************)
(* A model of the vi command core of the editor (src/vicmd.w): the command *)
(* parser cmd_parse, the insertion interpreter insert, the dispatcher      *)
(* docmd, the motion and action handlers, and the yank ring; and of the    *)
(* event path of the SDL backend (src/sdl.c): the event channel, the input *)
(* thread, and GSdlInit, GSdlNextEvent, GSdlSync and GSdlDeinit.           *)
(*                                                                         *)
(* Runes are modelled as strings: an ASCII rune is the one-character       *)
(* string, control characters are written "^D", special keys "GKEsc".      *)
(* Offsets are C unsigned values: a negative model integer n stands for    *)
(* the unsigned value 2^32 + n (so -1 is -1u); ULt is the unsigned order.  *)
(* Counts are C unsigned short values, reduced modulo CountMod.            *)
(***************************************************************************)
EXTENDS Integers, Sequences, FiniteSets, TLC

VARIABLES
    parser,   \* static state of cmd_parse: buf, c, m, pcmd, state
    mode,     \* Command or Insert
    lasti,    \* insertion log: buf (the first len runes), locked
    cnti,     \* repeat count of the running insertion
    lastf,    \* find memory: locked, chr, arg
    eb,       \* host edit buffer: text, marks, undo log
    cu,       \* curwin->cu
    win,      \* host window: top line, scroll flags
    yannon,   \* anonymous yank slot
    ynum,     \* numeric yank ring, indices 0..8
    ytip,     \* head of the ring
    rep,      \* statics of docmd: lastbuf, lastc, lastm, redo
    obs,      \* observation of the last cmd_parse call (history variable)
    gui       \* SDL backend: both threads, globalContext, the event channel

vars == <<parser, mode, lasti, cnti, lastf, eb, cu, win, yannon, ynum, ytip, rep, obs, gui>>

-----------------------------------------------------------------------------
(* Program constants *)

MaxInsert == 512
CountMod == 65536
RingSize == 9
RingStep == 8

(* Bounds of the model *)

MaxText == 6
MaxCu == 8
MaxCount == 20
MaxCommits == 3
MaxSteps == 5
MaxPending == 5
\* runes fed in SpecChange
ChangeSteps == 7
\* runes fed in SpecPut, and the greatest count typed
PutSteps == 4
PutCount == 12
MaxYanks == 9
RingSteps == 3
WinLines == 3
\* bytes of a GEvent in the pipe, bytes the pipe holds, SDL events in all,
\* SDL events waiting
EventSize == 2
PipeCap == 5
MaxEvents == 4
QueueCap == 2

Command == "c"
Insert == "i"

NUL == "NUL"
GKEsc == "GKEsc"
GKBackspace == "GKBackspace"
SelBeg == "SelBeg"
SelEnd == "SelEnd"
NoMark == -1
\* the backquote rune
BQ == "bq"

-----------------------------------------------------------------------------
(* Rune classes (ctype.h applied to ASCII runes) *)

Digits == {"0", "1", "2", "3", "4", "5", "6", "7", "8", "9"}
Lower == {"a", "b", "c", "d", "e", "f", "g", "h", "i", "j", "k", "l", "m",
          "n", "o", "p", "q", "r", "s", "t", "u", "v", "w", "x", "y", "z"}
Upper == {"A", "B", "C", "D", "E", "F", "G", "H", "I", "J", "K", "L", "M",
          "N", "O", "P", "Q", "R", "S", "T", "U", "V", "W", "X", "Y", "Z"}
Punct == {"\"", "'", BQ, ",", ";", ".", "^", "$", "_", "{", "}", "%", "/",
          "(", ")", "[", "]", "<", ">", "!", "-", " "}
Ctrl == {NUL, "^D", "^U", "^E", "^Y", "^T", "\t", "^L", "^W", "^Q", "\n", "\f"}
Ascii == Digits \cup Lower \cup Upper \cup Punct \cup Ctrl
Latin == {"é"}

risascii(r) == r \in Ascii
isdigit(r) == r \in Digits
islower(r) == r \in Lower
isalpha(r) == r \in Lower \cup Upper
isblank(r) == r \in {" ", "\t"}
isspace(r) == r \in {" ", "\t", "\n", "\f"}
risblank(r) == risascii(r) /\ isblank(r)
risbuf(r) == risascii(r) /\ (islower(r) \/ isdigit(r))
\* variant: no rune counts as a control character
risctrl_Never(r) == FALSE
risctrl(r) == r \in Ctrl

DigitVal(r) ==
    CASE r = "0" -> 0 [] r = "1" -> 1 [] r = "2" -> 2 [] r = "3" -> 3
      [] r = "4" -> 4 [] r = "5" -> 5 [] r = "6" -> 6 [] r = "7" -> 7
      [] r = "8" -> 8 [] r = "9" -> 9

tolower(r) ==
    CASE r = "F" -> "f" [] r = "T" -> "t" [] r = "E" -> "e" [] r = "W" -> "w"
      [] OTHER -> r

\* chr ^ 32 on the four find commands
FlipCase(r) ==
    CASE r = "f" -> "F" [] r = "F" -> "f" [] r = "t" -> "T" [] r = "T" -> "t"
      [] OTHER -> r

-----------------------------------------------------------------------------
(* The keys table *)

CIsDouble == "CIsDouble"
CHasArg == "CHasArg"
CHasMotion == "CHasMotion"
CIsMotion == "CIsMotion"
CZeroCount == "CZeroCount"

KeyFn(r) ==
    CASE r \in {"h", "l"} -> "m_hl"
      [] r \in {"j", "k"} -> "m_jk"
      [] r \in {"t", "f", "T", "F"} -> "m_find"
      [] r \in {",", ";"} -> "m_repf"
      [] r \in {"0", "^"} -> "m_bol"
      [] r = "$" -> "m_eol"
      [] r = "_" -> "m_line"
      [] r \in {"w", "W", "e", "E"} -> "m_ewEW"
      [] r \in {"b", "B"} -> "m_bB"
      [] r \in {"{", "}"} -> "m_par"
      [] r = "%" -> "m_match"
      [] r = "G" -> "m_G"
      [] r \in {"H", "L", "M"} -> "m_HML"
      [] r \in {"n", "N"} -> "m_nN"
      [] r = "/" -> "m_sel"
      [] r \in {"'", BQ} -> "m_mark"
      [] r \in {"d", "x"} -> "a_d"
      [] r = "c" -> "a_c"
      [] r = "y" -> "a_y"
      [] r \in {"i", "I", "a", "A", "o", "O"} -> "a_ins"
      [] r \in {"p", "P"} -> "a_pP"
      [] r = "m" -> "a_m"
      [] r \in {"^D", "^U", "^E", "^Y"} -> "a_scroll"
      [] r = "^T" -> "a_tag"
      [] r = "\t" -> "a_run"
      [] r = "^L" -> "a_swtch"
      [] r = "^W" -> "a_write"
      [] r = "^Q" -> "a_exit"
      [] OTHER -> "0"

MotionFns == {"m_hl", "m_jk", "m_find", "m_repf", "m_bol", "m_eol", "m_line",
              "m_ewEW", "m_bB", "m_par", "m_match", "m_G", "m_HML", "m_nN",
              "m_sel", "m_mark"}

\* variant: the d key is a doubled one
KeyFlags_DoubleD(r) ==
    (IF KeyFn(r) \in MotionFns THEN {CIsMotion} ELSE {})
    \cup (IF r \in {"t", "f", "T", "F", "'", BQ, "m", "^L"} THEN {CHasArg} ELSE {})
    \cup (IF r \in {"d", "c", "y"} THEN {CHasMotion} ELSE {})
    \cup (IF r \in {"G", ".", "^D", "^U"} THEN {CZeroCount} ELSE {})
    \cup (IF r = "d" THEN {CIsDouble} ELSE {})

KeyFlags(r) ==
    (IF KeyFn(r) \in MotionFns THEN {CIsMotion} ELSE {})
    \cup (IF r \in {"t", "f", "T", "F", "'", BQ, "m", "^L"} THEN {CHasArg} ELSE {})
    \cup (IF r \in {"d", "c", "y"} THEN {CHasMotion} ELSE {})
    \cup (IF r \in {"G", ".", "^D", "^U"} THEN {CZeroCount} ELSE {})

-----------------------------------------------------------------------------
(* Unsigned arithmetic *)

ULt(a, b) == IF (a < 0) = (b < 0) THEN a < b ELSE b < 0
ULe(a, b) == a = b \/ ULt(a, b)

U16(n) == n % CountMod

-----------------------------------------------------------------------------
(* Host buffer (buf.h, edit.h): rune retrieval, lines and columns.  The    *)
(* text is followed by limbo, an unbounded run of newlines.                *)

buf_get(T, p) == IF p >= 0 /\ p < Len(T) THEN T[p + 1] ELSE "\n"

limbo(T) == Len(T)

RECURSIVE buf_bol(_, _)
buf_bol(T, p) ==
    IF p <= 0 THEN p
    ELSE IF buf_get(T, p - 1) = "\n" THEN p
    ELSE buf_bol(T, p - 1)

RECURSIVE buf_eol(_, _)
buf_eol(T, p) == IF buf_get(T, p) = "\n" THEN p ELSE buf_eol(T, p + 1)

\* number of newlines at offsets [0, p)
NlBefore(T, p) ==
    IF p <= Len(T) THEN Cardinality({i \in 1..p : T[i] = "\n"})
    ELSE Cardinality({i \in 1..Len(T) : T[i] = "\n"}) + (p - Len(T))

\* offset of the first column of line l >= 0
LineBol(T, l) ==
    LET K == NlBefore(T, Len(T))
    IN  IF l = 0 THEN 0
        ELSE IF l <= K
             THEN CHOOSE i \in 1..Len(T) : T[i] = "\n" /\ NlBefore(T, i) = l
             ELSE Len(T) + (l - K)

buf_getlc(T, p) == [line |-> NlBefore(T, p), col |-> p - buf_bol(T, p)]

buf_setlc(T, line, col) ==
    LET b == LineBol(T, IF line < 0 THEN 0 ELSE line)
        e == buf_eol(T, b)
    IN  IF col < 0 THEN b ELSE IF b + col > e THEN e ELSE b + col

\* the runes at offsets [p0, p1)
Span(T, p0, p1) == [i \in 1..(IF ULt(p0, p1) THEN p1 - p0 ELSE 0) |-> buf_get(T, p0 + i - 1)]

-----------------------------------------------------------------------------
(* Host edit buffer: edits move the marks, commit closes an undo record    *)

eb_getmark(E, name) == IF name \in DOMAIN E.marks THEN E.marks[name] ELSE NoMark

eb_setmark(E, name, p) ==
    [E EXCEPT !.marks = [n \in DOMAIN E.marks \cup {name} |->
                            IF n = name THEN p ELSE E.marks[n]]]

eb_ins(E, p, r) ==
    LET T == E.text
        pad == IF p > Len(T) THEN [i \in 1..(p - Len(T)) |-> "\n"] ELSE <<>>
        T1 == T \o pad
    IN  [E EXCEPT !.text = SubSeq(T1, 1, p) \o <<r>> \o SubSeq(T1, p + 1, Len(T1)),
                  !.marks = [n \in DOMAIN E.marks |->
                                IF E.marks[n] >= p THEN E.marks[n] + 1 ELSE E.marks[n]]]

eb_del(E, p0, p1) ==
    LET T == E.text
        q0 == IF p0 > Len(T) THEN Len(T) ELSE p0
        q1 == IF p1 > Len(T) THEN Len(T) ELSE p1
    IN  IF ~ULt(p0, p1) \/ p0 < 0 THEN E
        ELSE [E EXCEPT !.text = SubSeq(T, 1, q0) \o SubSeq(T, q1 + 1, Len(T)),
                       !.marks = [n \in DOMAIN E.marks |->
                                     IF E.marks[n] >= p1 THEN E.marks[n] - (p1 - p0)
                                     ELSE IF E.marks[n] > p0 THEN p0
                                     ELSE E.marks[n]]]

eb_commit(E) ==
    IF E.text = E.ulog[E.upos] THEN E
    ELSE [E EXCEPT !.ulog = SubSeq(E.ulog, 1, E.upos) \o <<E.text>>,
                   !.upos = E.upos + 1]

\* first offset at which two texts differ
FirstDiff(T1, T2) ==
    LET n == IF Len(T1) < Len(T2) THEN Len(T1) ELSE Len(T2)
        D == {i \in 1..n : T1[i] /= T2[i]}
    IN  IF D = {} THEN n ELSE (CHOOSE i \in D : \A j \in D : i <= j) - 1

\* eb_undo(eb, undo, &cu): one step back in the log when undo is set, one
\* step forward otherwise; the result is the pair of the buffer and cursor
eb_undo(E, undo, cur) ==
    LET to == IF undo = 1 THEN E.upos - 1 ELSE E.upos + 1
    IN  IF to < 1 \/ to > Len(E.ulog) THEN [eb |-> E, cu |-> cur]
        ELSE [eb |-> [E EXCEPT !.text = E.ulog[to], !.upos = to],
              cu |-> FirstDiff(E.text, E.ulog[to])]

-----------------------------------------------------------------------------
(* Host window and search *)

\* curwin->nl and curwin->l[i]
win_nl == WinLines
win_l(S, i) == buf_setlc(S.eb.text, S.win.top + i, 0)

win_scroll(S, cnt) ==
    [S EXCEPT !.win.top = IF S.win.top + cnt < 0 THEN 0 ELSE S.win.top + cnt]

\* ex_look(curwin, r, nr, reverse): literal search from the cursor, wrapping
\* around; a match becomes the selection and the cursor moves to its start
ex_look(S, pat, reverse) ==
    LET T == S.eb.text
        n == Len(pat)
        M == {p \in 0..(Len(T) - n) : SubSeq(T, p + 1, p + n) = pat}
        after == {p \in M : p > S.cu}
        before == {p \in M : p < S.cu}
        Min(X) == CHOOSE p \in X : \A q \in X : p <= q
        Max(X) == CHOOSE p \in X : \A q \in X : p >= q
        hit == IF reverse THEN (IF before /= {} THEN Max(before) ELSE Max(M))
               ELSE (IF after /= {} THEN Min(after) ELSE Min(M))
    IN  IF n = 0 \/ M = {} THEN [S |-> S, err |-> 1]
        ELSE [S |-> [S EXCEPT !.cu = hit,
                              !.eb = eb_setmark(eb_setmark(S.eb, SelBeg, hit), SelEnd, hit + n)],
              err |-> 0]


-----------------------------------------------------------------------------
(* Insertion mode *)

\* Switch to insertion mode
\* variant: the repeat count is left as the last insertion left it
SwitchToInsert_KeepsCount(S) ==
    [S EXCEPT !.lasti = IF ~S.lasti.locked THEN [@ EXCEPT !.buf = <<>>] ELSE @,
              !.mode = Insert]

SwitchToInsert(S) ==
    [S EXCEPT !.lasti = IF ~S.lasti.locked THEN [@ EXCEPT !.buf = <<>>] ELSE @,
              !.cnti = 1,
              !.mode = Insert]

\* variant: the log takes a rune also when it is full
insert_log_NoLimit(L, r) ==
    IF ~L.locked /\ r /= GKEsc THEN [L EXCEPT !.buf = Append(@, r)] ELSE L

\* insert: memorize the typed rune in lasti
insert_log(L, r) ==
    IF ~L.locked /\ r /= GKEsc
    THEN IF Len(L.buf) < MaxInsert
         THEN [L EXCEPT !.buf = Append(@, r)]
         ELSE [buf |-> <<>>, locked |-> TRUE]
    ELSE L

\* Delete one character
DeleteOne(S) ==
    IF ULt(0, S.cu)
    THEN [S EXCEPT !.eb = eb_del(S.eb, S.cu - 1, S.cu), !.cu = S.cu - 1]
    ELSE S

\* the loop of Insert a new line preserving the indentation
RECURSIVE CopyIndent(_, _)
CopyIndent(S, p) ==
    IF risblank(buf_get(S.eb.text, p))
    THEN CopyIndent([S EXCEPT !.eb = eb_ins(S.eb, S.cu, buf_get(S.eb.text, p)),
                              !.cu = S.cu + 1], p + 1)
    ELSE S

\* variant: the new line gets no indentation
InsertNewline_NoIndent(S) == [S EXCEPT !.eb = eb_ins(S.eb, S.cu, "\n"), !.cu = S.cu + 1]

InsertNewline(S) ==
    LET indent(S1) == CopyIndent(S1, buf_bol(S1.eb.text, S.cu))
    IN  indent([S EXCEPT !.eb = eb_ins(S.eb, S.cu, "\n"), !.cu = S.cu + 1])

RECURSIVE insert(_, _)

\* insert(runes[lo]), ..., insert(runes[hi]) in this order; the span is
\* halved so that the evaluation of a loop over a full log stays shallow
RECURSIVE InsertSpan(_, _, _, _)
InsertSpan(S, runes, lo, hi) ==
    IF lo > hi THEN S
    ELSE IF lo = hi THEN insert(S, runes[lo])
    ELSE LET mid == (lo + hi) \div 2
             rest(left) ==
                 IF left.mode \in {Command, Insert}
                 THEN InsertSpan(left, runes, mid + 1, hi)
                 ELSE left
         IN  rest(InsertSpan(S, runes, lo, mid))

\* for (u = p; u < len; u++) insert(runes[u])
InsertAll(S, runes, p) == InsertSpan(S, runes, p, Len(runes))

\* the loop of the count left out: the insertion is applied once
RepeatInsert_Never(S) == [S EXCEPT !.cnti = 0]

\* while (--cnti) for (u = 0; u < lasti.len; u++) insert(lasti.buf[u])
RECURSIVE RepeatInsert(_)
RepeatInsert(S) ==
    LET n == U16(S.cnti - 1)
    IN  IF n = 0 THEN [S EXCEPT !.cnti = 0]
        ELSE RepeatInsert(InsertAll([S EXCEPT !.cnti = n], S.lasti.buf, 1))

\* Repeat insert cnti-1 times; leave insert mode
LeaveInsert(S) ==
    IF S.cnti = 0 THEN [S EXCEPT !.obs.assert = @ \cup {"cnti != 0"}]
    ELSE
    LET unlock(S1) == [S1 EXCEPT !.lasti.locked = FALSE]
        back(S2) ==
            IF buf_get(S2.eb.text, S2.cu - 1) /= "\n" THEN [S2 EXCEPT !.cu = S2.cu - 1] ELSE S2
        leave(S3) == [S3 EXCEPT !.eb = eb_commit(S3.eb), !.mode = Command]
    IN  leave(back(unlock(RepeatInsert([S EXCEPT !.lasti.locked = TRUE]))))

insert(S, r) ==
    LET type(S1) ==
            CASE r = GKEsc -> LeaveInsert(S1)
              [] r = GKBackspace -> DeleteOne(S1)
              [] r = "\n" -> InsertNewline(S1)
              [] OTHER -> [S1 EXCEPT !.eb = eb_ins(S1.eb, S1.cu, r), !.cu = S1.cu + 1]
        observe(S2) ==
            [S2 EXCEPT !.obs.lockedwrite =
                @ \/ (S.lasti.locked /\ Len(S2.lasti.buf) /= Len(S.lasti.buf))]
    IN  observe(type([S EXCEPT !.lasti = insert_log(S.lasti, r)]))

-----------------------------------------------------------------------------
(* Motion commands.  A motion returns [S, ret, m]: the state (a few        *)
(* motions write the find memory, the cursor or the selection), the        *)
(* return value (0 on success, 1 on failure) and the Motion structure.     *)

Ret(S, ret, M) == [S |-> S, ret |-> ret, m |-> M]

\* history: the call fn(ismotion, c, &m), made through the keys table or
\* by the delegating motion via, returned res
Called(fn, via, ismotion, c, res) ==
    [res EXCEPT !.S.obs.calls = @ \cup
        {[fn |-> fn, via |-> via, chr |-> c.chr, count |-> c.count, ismotion |-> ismotion,
          ret |-> res.ret, beg |-> res.m.beg, end |-> res.m.end,
          linewise |-> res.m.linewise]}]

swap(M) == [M EXCEPT !.beg = M.end, !.end = M.beg]

RECURSIVE blkspn(_, _)
blkspn(T, p) == IF risblank(buf_get(T, p)) THEN blkspn(T, p + 1) ELSE p

\* Extend the motion range to lines
ExtendToLines(T, M) ==
    [linewise |-> TRUE, beg |-> buf_bol(T, M.beg), end |-> buf_eol(T, M.end) + 1]

m_hl(S, ismotion, c, M) ==
    LET T == S.eb.text
        to(e) == [M EXCEPT !.end = e]
        range(M1) == IF ismotion THEN swap(M1) ELSE M1
        left(lc) ==
            IF lc.col = 0 THEN Ret(S, 1, M)
            ELSE Ret(S, 0, range(to(buf_setlc(T, lc.line, lc.col - c.count))))
        right(e) ==
            IF ~ismotion /\ buf_get(T, e) = "\n" THEN Ret(S, 1, to(e)) ELSE Ret(S, 0, to(e))
        go(lc) ==
            IF c.chr = "h" THEN left(lc)
            ELSE IF buf_get(T, M.beg) = "\n" THEN Ret(S, 1, M)
            ELSE right(buf_setlc(T, lc.line, lc.col + c.count))
    IN  go(buf_getlc(T, M.beg))

m_jk(S, ismotion, c, M) ==
    LET T == S.eb.text
        range(M1) ==
            IF ismotion THEN ExtendToLines(T, IF c.chr = "k" THEN swap(M1) ELSE M1) ELSE M1
        go(lc) ==
            IF c.chr = "k" /\ c.count > lc.line THEN Ret(S, 1, M)
            ELSE Ret(S, 0, range([M EXCEPT !.end =
                     buf_setlc(T, IF c.chr = "k" THEN lc.line - c.count
                                  ELSE lc.line + c.count, lc.col)]))
    IN  go(buf_getlc(T, M.beg))

\* inner loop of m_find: while ((r = buf_get(curb, p += dp)) != c.arg)
RECURSIVE find_scan(_, _, _, _)
find_scan(T, p, dp, arg) ==
    IF buf_get(T, p + dp) = arg THEN [ok |-> TRUE, p |-> p + dp]
    ELSE IF buf_get(T, p + dp) = "\n" THEN [ok |-> FALSE, p |-> p + dp]
    ELSE find_scan(T, p + dp, dp, arg)

\* outer loop of m_find: while (c.count--)
RECURSIVE find_loop(_, _, _, _, _)
find_loop(T, p, dp, arg, n) ==
    IF n = 0 THEN [ok |-> TRUE, p |-> p]
    ELSE LET next(f) == IF f.ok THEN find_loop(T, f.p, dp, arg, n - 1) ELSE f
         IN  next(find_scan(T, p, dp, arg))

\* Save the searched rune and the command name
SaveFind(F, c) ==
    IF ~F.locked THEN [F EXCEPT !.chr = c.chr, !.arg = c.arg]
    ELSE [F EXCEPT !.locked = FALSE]

m_find(S, ismotion, c, M) ==
    LET dp == IF islower(c.chr) THEN 1 ELSE -1
        range(M1) ==
            IF ~ismotion THEN M1
            ELSE IF dp = 1 THEN [M1 EXCEPT !.end = @ + 1]
            ELSE swap(M1)
        found(S1, f) ==
            IF ~f.ok THEN Ret(S1, 1, M)
            ELSE Ret(S1, 0, range([M EXCEPT !.end =
                     IF tolower(c.chr) = "f" THEN f.p ELSE f.p - dp]))
    IN  found([S EXCEPT !.lastf = SaveFind(S.lastf, c)],
              find_loop(S.eb.text, M.beg, dp, c.arg, c.count))

\* variant: the find memory is not locked for the call of m_find
m_repf_NoLock(S, ismotion, c, M) ==
    LET find(cf) == Called("m_find", "m_repf", ismotion, cf, m_find(S, ismotion, cf, M))
    IN  IF S.lastf.chr = NUL THEN Ret(S, 1, M)
        ELSE find([count |-> c.count,
                   chr |-> IF c.chr = "," THEN FlipCase(S.lastf.chr) ELSE S.lastf.chr,
                   arg |-> S.lastf.arg])

m_repf(S, ismotion, c, M) ==
    LET find(cf) ==
            Called("m_find", "m_repf", ismotion, cf,
                   m_find([S EXCEPT !.lastf.locked = TRUE], ismotion, cf, M))
    IN  IF S.lastf.chr = NUL THEN Ret(S, 1, M)
        ELSE find([count |-> c.count,
                   chr |-> IF c.chr = "," THEN FlipCase(S.lastf.chr) ELSE S.lastf.chr,
                   arg |-> S.lastf.arg])

\* variant: the call fails whenever the destination is the starting point
m_bol_FailsInPlace(S, ismotion, c, M) ==
    LET T == S.eb.text
        to(e) == [M EXCEPT !.end = IF c.chr = "^" THEN blkspn(T, e) ELSE e]
        order(M1) == IF ismotion /\ ULt(M1.end, M1.beg) THEN swap(M1) ELSE M1
        ret(M2) == Ret(S, IF M2.end = M2.beg THEN 1 ELSE 0, M2)
    IN  ret(order(to(buf_bol(T, M.beg))))

m_bol(S, ismotion, c, M) ==
    LET T == S.eb.text
        to(e) == [M EXCEPT !.end = IF c.chr = "^" THEN blkspn(T, e) ELSE e]
        order(M1) == IF ismotion /\ ULt(M1.end, M1.beg) THEN swap(M1) ELSE M1
        ret(M2) == Ret(S, IF ismotion /\ M2.end = M2.beg THEN 1 ELSE 0, M2)
    IN  ret(order(to(buf_bol(T, M.beg))))

m_eol(S, ismotion, c, M) ==
    LET T == S.eb.text
        last(lc) == buf_eol(T, buf_setlc(T, lc.line + c.count - 1, 0)) - 1
        past(e) == IF ismotion \/ buf_get(T, e) = "\n" THEN e + 1 ELSE e
        range(bol, e) ==
            IF ismotion /\ c.count > 1 /\ ULe(M.beg, blkspn(T, bol))
            THEN [linewise |-> TRUE, beg |-> bol, end |-> e + 1]
            ELSE [M EXCEPT !.end = e]
        ret(M1) == Ret(S, IF ismotion /\ c.count = 1 /\ M1.end = M1.beg THEN 1 ELSE 0, M1)
    IN  ret(range(buf_bol(T, M.beg), past(last(buf_getlc(T, M.beg)))))

risword(r) ==
    \/ (risascii(r) /\ isalpha(r))
    \/ r \in Latin
    \/ r \in Digits
    \/ r = "_"

risbigword(r) == ~risascii(r) \/ ~isspace(r)

\* the word predicate as 0 or 1
InWord(small, r) == IF (IF small THEN risword(r) ELSE risbigword(r)) THEN 1 ELSE 0

\* int dfa[][2] = {{1, 0}, {1, 2}}
ew_dfa(s, x) == IF s = 0 THEN (IF x = 0 THEN 1 ELSE 0) ELSE (IF x = 0 THEN 1 ELSE 2)

\* the for loop of m_ewEW; last is c.count == 0 after the decrement
RECURSIVE ew_for(_, _, _, _, _, _, _, _)
ew_for(T, p, r, s, last, ismotion, ise, small) ==
    IF s = 2 THEN [p |-> p, r |-> r]
    ELSE IF ULe(limbo(T) + 1, p) THEN [p |-> p, r |-> r]
    ELSE IF r = "\n" /\ last /\ ismotion /\ ise = 0 THEN [p |-> p, r |-> r]
    ELSE LET step(r1) ==
                 ew_for(T, p + 1, r1, ew_dfa(s, (ise + InWord(small, r1)) % 2),
                        last, ismotion, ise, small)
         IN  step(buf_get(T, ise + p))

\* while (c.count--); once p is past limbo every further round breaks at once
RECURSIVE ew_while(_, _, _, _, _, _, _)
ew_while(T, p, r, n, ismotion, ise, small) ==
    IF n = 0 \/ ULe(limbo(T) + 1, p) THEN p
    ELSE LET next(f) == ew_while(T, f.p, f.r, n - 1, ismotion, ise, small)
         IN  next(ew_for(T, p, r, 0, n = 1, ismotion, ise, small))

m_ewEW(S, ismotion, c, M) ==
    LET ise == IF tolower(c.chr) = "e" THEN 1 ELSE 0
        ret(p) == Ret(S, 0, [M EXCEPT !.end = IF ismotion /\ ise = 1 THEN p ELSE p - 1])
    IN  ret(ew_while(S.eb.text, M.beg, "x", c.count, ismotion, ise, islower(c.chr)))

\* int dfa[][2] = {{0, 1}, {2, 1}}
bb_dfa(s, x) == IF s = 0 THEN (IF x = 0 THEN 0 ELSE 1) ELSE (IF x = 0 THEN 2 ELSE 1)

RECURSIVE bb_for(_, _, _, _)
bb_for(T, p, s, small) ==
    IF s = 2 \/ p = -1 THEN p
    ELSE bb_for(T, p - 1, bb_dfa(s, InWord(small, buf_get(T, p - 1))), small)

\* while (c.count--); at p == -1u every further round ends at once
RECURSIVE bb_while(_, _, _, _)
bb_while(T, p, n, small) ==
    IF n = 0 \/ p = -1 THEN p ELSE bb_while(T, bb_for(T, p, 0, small), n - 1, small)

m_bB(S, ismotion, c, M) ==
    LET ret(M1) == Ret(S, 0, IF ismotion THEN swap(M1) ELSE M1)
    IN  ret([M EXCEPT !.end = bb_while(S.eb.text, M.beg, c.count, c.chr = "b") + 1])


\* line types of m_par: Blank, FormFeed, Text
LineType(T, bol) ==
    LET r == buf_get(T, blkspn(T, bol))
    IN  IF r = "\n" THEN 0 ELSE IF r = "\f" THEN 1 ELSE 2

\* variant: a blank line after text does not end the paragraph
par_dfa_PastBlank(s, t) ==
    CASE s = 0 -> (IF t = 0 THEN 0 ELSE 3)
      [] s = 1 -> (IF t = 2 THEN 3 ELSE 2)
      [] s = 2 -> (IF t = 0 THEN 2 ELSE IF t = 1 THEN 9 ELSE 3)
      [] s = 3 -> (IF t = 2 THEN 3 ELSE IF t = 0 THEN 2 ELSE 9)

\* int dfa[][3] = {{0, 3, 3}, {2, 2, 3}, {2, 9, 3}, {9, 9, 3}}
par_dfa(s, t) ==
    CASE s = 0 -> (IF t = 0 THEN 0 ELSE 3)
      [] s = 1 -> (IF t = 2 THEN 3 ELSE 2)
      [] s = 2 -> (IF t = 0 THEN 2 ELSE IF t = 1 THEN 9 ELSE 3)
      [] s = 3 -> (IF t = 2 THEN 3 ELSE 9)

\* the for loop of m_par: Set ltyp, Update the state s and proceed
RECURSIVE par_for(_, _, _, _, _)
par_for(T, l, bol, s, chr) ==
    IF ~(l >= 0 /\ (ULt(bol, limbo(T)) \/ chr = "{")) THEN [l |-> l, bol |-> bol]
    ELSE LET next(s1, l1) ==
                 IF s1 = 9 THEN [l |-> l, bol |-> bol]
                 ELSE par_for(T, l1, buf_setlc(T, l1, 0), s1, chr)
         IN  next(par_dfa(s, LineType(T, bol)), IF chr = "{" THEN l - 1 ELSE l + 1)

\* while (c.count--); when the for condition fails every further round is empty
RECURSIVE par_while(_, _, _, _, _)
par_while(T, l, bol, n, chr) ==
    IF n = 0 \/ ~(l >= 0 /\ (ULt(bol, limbo(T)) \/ chr = "{")) THEN bol
    ELSE LET next(f) == par_while(T, f.l, f.bol, n - 1, chr)
         IN  next(par_for(T, l, bol, IF chr = "{" THEN 1 ELSE 0, chr))

m_par(S, ismotion, c, M) ==
    LET T == S.eb.text
        \* Detect if paragraph motion is linewise
        from(bol) ==
            IF ULe(M.beg, blkspn(T, bol))
            THEN [M EXCEPT !.beg = bol, !.linewise = TRUE] ELSE M
        ret(M2) == Ret(S, 0, IF ismotion /\ c.chr = "{" THEN swap(M2) ELSE M2)
        go(lc, bol) ==
            ret([from(bol) EXCEPT !.end = par_while(T, lc.line, bol, c.count, c.chr)])
    IN  go(buf_getlc(T, M.beg), buf_bol(T, M.beg))

\* Rune match[] = { '<', '{', '(', '[', ']', ')', '}', '>' }
match == <<"<", "{", "(", "[", "]", ")", "}", ">">>

MatchIndex(r) == IF \E n \in 1..8 : match[n] = r
                 THEN (CHOOSE n \in 1..8 : match[n] = r) - 1 ELSE 8

\* Find the search direction and the matching character: the first
\* delimiter at or after p on the line, or -1 when there is none
RECURSIVE match_seek(_, _)
match_seek(T, p) ==
    IF buf_get(T, p) = "\n" THEN -1
    ELSE IF MatchIndex(buf_get(T, p)) < 8 THEN p
    ELSE match_seek(T, p + 1)

\* the nesting loop of m_match
RECURSIVE match_for(_, _, _, _, _, _)
match_for(T, p, n, begr, endr, dp) ==
    LET r == buf_get(T, p)
        next(n1) ==
            IF n1 = 0 THEN [ok |-> TRUE, p |-> p]
            ELSE IF p = -1 \/ ULe(limbo(T), p) THEN [ok |-> FALSE, p |-> p]
            ELSE match_for(T, p + dp, n1, begr, endr, dp)
    IN  next(n + (IF r = begr THEN 1 ELSE 0) - (IF r = endr THEN 1 ELSE 0))

\* variant: the region of `%` is never extended to lines
MatchAdjust_NeverLines(T, M, dp) ==
    [(IF dp = -1 THEN swap(M) ELSE M) EXCEPT !.end = @ + 1]

\* Detect if the motion is linewise and adjust it
MatchAdjust(T, M, dp) ==
    LET lines(M2) ==
            IF ULe(M2.beg, blkspn(T, buf_bol(T, M2.beg)))
               /\ blkspn(T, M2.end) = buf_eol(T, M2.end)
            THEN ExtendToLines(T, M2) ELSE M2
    IN  lines([(IF dp = -1 THEN swap(M) ELSE M) EXCEPT !.end = @ + 1])

m_match(S, ismotion, c, M) ==
    LET T == S.eb.text
        dir(n) == IF n >= 4 THEN -1 ELSE 1
        ret(f, dp) ==
            IF ~f.ok THEN Ret(S, 1, M)
            ELSE Ret(S, 0, IF ismotion THEN MatchAdjust(T, [M EXCEPT !.end = f.p], dp)
                           ELSE [M EXCEPT !.end = f.p])
        nest(p0, n) == ret(match_for(T, p0, 0, match[n + 1], match[8 - n], dir(n)), dir(n))
        found(p0) == IF p0 = -1 THEN Ret(S, 1, M) ELSE nest(p0, MatchIndex(buf_get(T, p0)))
    IN  found(match_seek(T, M.beg))

m_G(S, ismotion, c, M) ==
    LET T == S.eb.text
        order(M1) == IF ULt(M1.end, M1.beg) THEN swap(M1) ELSE M1
        to(e) ==
            IF ~ismotion THEN Ret(S, 0, [M EXCEPT !.end = blkspn(T, e)])
            ELSE Ret(S, 0, ExtendToLines(T, order([M EXCEPT !.end = e])))
    IN  to(IF c.count /= 0 THEN buf_setlc(T, c.count - 1, 0) ELSE limbo(T))

m_HML(S, ismotion, c, M) ==
    LET T == S.eb.text
        order(M1) == IF ULt(M1.end, M1.beg) THEN swap(M1) ELSE M1
        to(M1) ==
            IF ~ismotion THEN Ret(S, 0, M1)
            ELSE Ret(S, 0, ExtendToLines(T, order(M1)))
    IN  IF c.chr \in {"H", "L"} /\ c.count > win_nl THEN Ret(S, 1, M)
        ELSE to([M EXCEPT !.end = win_l(S, CASE c.chr = "H" -> c.count - 1
                                              [] c.chr = "L" -> win_nl - c.count
                                              [] OTHER -> win_nl \div 2)])

m_mark(S, ismotion, c, M) ==
    LET T == S.eb.text
        order(M1) == IF ULt(M1.end, M1.beg) THEN swap(M1) ELSE M1
        lines(M2) == IF c.chr = "'" THEN ExtendToLines(T, M2) ELSE M2
        to(M1) ==
            IF M1.end = NoMark THEN Ret(S, 1, M1)
            ELSE IF ismotion THEN Ret(S, 0, lines(order(M1)))
            ELSE IF c.chr = "'"
                 THEN Ret(S, 0, [M1 EXCEPT !.end = blkspn(T, buf_bol(T, M1.end))])
            ELSE Ret(S, 0, M1)
    IN  to([M EXCEPT !.end = eb_getmark(S.eb, c.arg)])

\* while (c.count--) err |= ex_look(curwin, pb->r, pb->nr, c.chr == 'N')
RECURSIVE look_loop(_, _, _, _, _)
look_loop(S, pat, reverse, n, err) ==
    IF n = 0 THEN [S |-> S, err |-> err]
    ELSE LET next(f) == look_loop(f.S, pat, reverse, n - 1, IF f.err /= 0 THEN 1 ELSE err)
         IN  next(ex_look(S, pat, reverse))

m_nN(S, ismotion, c, M) ==
    LET pat(s0, s1) ==
            IF ULt(s0, s1) /\ s0 /= NoMark /\ s1 /= NoMark
            THEN Span(S.eb.text, s0, s1) ELSE S.yannon.r
        range(T, M1) == IF ismotion THEN ExtendToLines(T, M1) ELSE M1
        ret(f) == Ret(f.S, f.err, range(f.S.eb.text, [M EXCEPT !.end = f.S.cu]))
    IN  ret(look_loop(S, pat(eb_getmark(S.eb, SelBeg), eb_getmark(S.eb, SelEnd)),
                      c.chr = "N", c.count, 0))

m_sel(S, ismotion, c, M) ==
    LET ret(M1) == Ret(S, IF ~ULt(M1.beg, M1.end) \/ M1.end = NoMark THEN 1 ELSE 0, M1)
    IN  IF ~ismotion \/ c.count /= 1 THEN Ret(S, 1, M)
        ELSE ret([M EXCEPT !.beg = eb_getmark(S.eb, SelBeg),
                           !.end = eb_getmark(S.eb, SelEnd)])


m_line(S, ismotion, c, M) ==
    LET nonblank(r) ==
            IF ismotion \/ r.ret /= 0 THEN r
            ELSE Ret(r.S, 0, [r.m EXCEPT !.end =
                                  blkspn(S.eb.text, buf_bol(S.eb.text, r.m.end))])
        down(cj) ==
            nonblank(Called("m_jk", "m_line", ismotion, cj, m_jk(S, ismotion, cj, M)))
    IN  down([count |-> U16(c.count - 1), chr |-> "j", arg |-> NUL])

\* keys[chr].motion(ismotion, c, &m)
CallMotion(S, ismotion, c, M) ==
    LET fn == KeyFn(c.chr)
    IN  Called(fn, "keys", ismotion, c,
          CASE fn = "m_hl" -> m_hl(S, ismotion, c, M)
            [] fn = "m_jk" -> m_jk(S, ismotion, c, M)
            [] fn = "m_find" -> m_find(S, ismotion, c, M)
            [] fn = "m_repf" -> m_repf(S, ismotion, c, M)
            [] fn = "m_bol" -> m_bol(S, ismotion, c, M)
            [] fn = "m_eol" -> m_eol(S, ismotion, c, M)
            [] fn = "m_line" -> m_line(S, ismotion, c, M)
            [] fn = "m_ewEW" -> m_ewEW(S, ismotion, c, M)
            [] fn = "m_bB" -> m_bB(S, ismotion, c, M)
            [] fn = "m_par" -> m_par(S, ismotion, c, M)
            [] fn = "m_match" -> m_match(S, ismotion, c, M)
            [] fn = "m_G" -> m_G(S, ismotion, c, M)
            [] fn = "m_HML" -> m_HML(S, ismotion, c, M)
            [] fn = "m_nN" -> m_nN(S, ismotion, c, M)
            [] fn = "m_sel" -> m_sel(S, ismotion, c, M)
            [] fn = "m_mark" -> m_mark(S, ismotion, c, M))

-----------------------------------------------------------------------------
(* Edition commands.  An action returns [S, ret].                          *)

Outcome(S, ret) == [S |-> S, ret |-> ret]

\* (a * b) mod 2^16 without leaving the 32-bit integers of TLC
\* variant: the product kept in the width of an unsigned
U16Mul_Wide(a, b) == a * b

U16Mul(a, b) == (((a * (b % 256)) % CountMod) + ((a * (b \div 256)) % CountMod) * 256) % CountMod

\* yankspan: eb_yank and the line mode; a region with end < beg is outside
\* the host's contract and is recorded as a fault
\* variant: every yank is marked as made of whole lines
yankspan_LineMode(S, M) == [r |-> Span(S.eb.text, M.beg, M.end), linemode |-> TRUE]

yankspan(S, M) == [r |-> Span(S.eb.text, M.beg, M.end), linemode |-> M.linewise]

\* variant: the ring turns the other way
NextTip_Forward(tip) == (tip + 1) % RingSize

\* the index of the ring slot written by a line-wise yank
NextTip(tip) == (tip + RingStep) % RingSize

\* the index of the ring slot named by the register '1'..'9'
RingIndex(tip, buf) == (tip + (DigitVal(buf) - 1)) % RingSize

yank(S, buf, count, mc) ==
    LET M0 == [beg |-> S.cu, end |-> 0, linewise |-> FALSE]
        ring(S1, m) ==
            IF m.linewise
            THEN [S1 EXCEPT !.ytip = NextTip(S1.ytip),
                            !.ynum[NextTip(S1.ytip)] = yankspan(S1, m),
                            !.obs.lwhist = <<Span(S1.eb.text, m.beg, m.end)>> \o @]
            ELSE S1
        anon(S2, m) ==
            [S2 EXCEPT !.yannon = yankspan(S2, m),
                       !.obs.fault = @ \/ ULt(m.end, m.beg),
                       !.obs.op = [ok |-> TRUE, m |-> m]]
        done(r) ==
            IF r.ret /= 0 THEN [S |-> r.S, ret |-> 1, m |-> r.m]
            ELSE [S |-> anon(ring(r.S, r.m), r.m), ret |-> 0, m |-> r.m]
    IN  IF CIsMotion \notin KeyFlags(mc.chr)
        THEN [S |-> [S EXCEPT !.obs.assert = @ \cup {"yank: CIsMotion"}],
              ret |-> 1, m |-> M0]
        ELSE done(CallMotion(S, TRUE, [mc EXCEPT !.count = U16Mul(mc.count, count)], M0))

a_y(S, buf, c, mc) ==
    LET select(y) ==
            IF y.ret = 0
            THEN Outcome([y.S EXCEPT !.eb = eb_setmark(eb_setmark(y.S.eb, SelBeg, y.m.beg),
                                                       SelEnd, y.m.end)], 0)
            ELSE Outcome(y.S, y.ret)
    IN  select(yank(S, buf, c.count, mc))

\* Prepare the cursor for putting
PutCursor(S, y, c) ==
    LET T == S.eb.text
    IN  IF y.linemode /\ c.chr = "P" THEN buf_bol(T, S.cu)
        ELSE IF y.linemode /\ c.chr = "p" THEN buf_eol(T, S.cu) + 1
        ELSE IF c.chr = "p" /\ buf_get(T, S.cu) /= "\n" THEN S.cu + 1
        ELSE S.cu

\* for (p = 0; p < y->nr; p++) eb_ins(curwin->eb, curwin->cu + p, y->r[p])
RECURSIVE put_for(_, _, _, _)
put_for(E, at, runes, p) ==
    IF p >= Len(runes) THEN E ELSE put_for(eb_ins(E, at + p, runes[p + 1]), at, runes, p + 1)

RECURSIVE put_while(_, _, _, _)
put_while(E, at, runes, n) ==
    IF n = 0 THEN E ELSE put_while(put_for(E, at, runes, 0), at, runes, n - 1)

\* variant: a buffer name other than a digit selects the anonymous slot
a_pP_AnyName(S, buf, c, mc) ==
    LET put(y, at) ==
            Outcome([S EXCEPT !.cu = at,
                              !.eb = eb_commit(put_while(S.eb, at, y.r, c.count))], 0)
        from(y) == put(y, PutCursor(S, y, c))
    IN  IF buf \in Digits \ {"0"} THEN from(S.ynum[RingIndex(S.ytip, buf)])
        ELSE from(S.yannon)

a_pP(S, buf, c, mc) ==
    LET put(y, at) ==
            Outcome([S EXCEPT !.cu = at,
                              !.eb = eb_commit(put_while(S.eb, at, y.r, c.count))], 0)
        from(y) == put(y, PutCursor(S, y, c))
    IN  IF buf \in Digits \ {"0"} THEN from(S.ynum[RingIndex(S.ytip, buf)])
        ELSE IF buf /= NUL THEN Outcome(S, 1)
        ELSE from(S.yannon)

\* variant: `d` removes the rune at the cursor when its motion fails
a_d_DespiteFailure(S, buf, c, mc) ==
    LET del(y) ==
            IF y.ret /= 0
            THEN Outcome([y.S EXCEPT !.eb = eb_commit(eb_del(y.S.eb, S.cu, S.cu + 1))], 1)
            ELSE Outcome([y.S EXCEPT !.cu = y.m.beg,
                                     !.eb = eb_commit(eb_del(y.S.eb, y.m.beg, y.m.end))], 0)
    IN  del(yank(S, buf, c.count,
                 IF c.chr = "x" THEN [count |-> 1, chr |-> "l", arg |-> NUL] ELSE mc))

a_d(S, buf, c, mc) ==
    LET del(y) ==
            IF y.ret /= 0 THEN Outcome(y.S, 1)
            ELSE Outcome([y.S EXCEPT !.cu = y.m.beg,
                                     !.eb = eb_commit(eb_del(y.S.eb, y.m.beg, y.m.end))], 0)
    IN  del(yank(S, buf, c.count,
                 IF c.chr = "x" THEN [count |-> 1, chr |-> "l", arg |-> NUL] ELSE mc))

a_c(S, buf, c, mc) ==
    LET inner(T, m) ==
            IF m.linewise THEN [m EXCEPT !.beg = blkspn(T, m.beg), !.end = m.end - 1] ELSE m
        del(S1, linewise, m1) ==
            [S1 EXCEPT !.obs.assert =
                           @ \cup (IF linewise /\ buf_get(S1.eb.text, m1.end) /= "\n"
                                   THEN {"a_c: newline"} ELSE {}),
                       !.cu = m1.beg,
                       !.eb = eb_del(S1.eb, m1.beg, m1.end)]
        change(y) ==
            IF y.ret /= 0 THEN Outcome(y.S, 1)
            ELSE Outcome(SwitchToInsert(del(y.S, y.m.linewise, inner(y.S.eb.text, y.m))), 0)
    IN  change(yank(S, buf, c.count, mc))

a_m(S, buf, c, mc) == Outcome([S EXCEPT !.eb = eb_setmark(S.eb, c.arg, S.cu)], 0)

\* ex_put, ex_run, chwin, win_tag_toggle and win_edge act on files and on
\* other windows: they leave the modelled state alone
a_write(S, buf, c, mc) == Outcome(S, 0)

a_exit(S, buf, c, mc) == Outcome([S EXCEPT !.win.exiting = 1], 1)

a_scroll(S, buf, c, mc) ==
    LET ud == c.chr \in {"^U", "^D"}
        lastud == IF ud /\ c.count /= 0 THEN c.count ELSE S.win.lastud
        cnt == CASE c.chr = "^E" -> c.count
                 [] c.chr = "^Y" -> 0 - c.count
                 [] c.chr = "^D" -> (IF lastud /= 0 THEN lastud ELSE win_nl \div 3)
                 [] c.chr = "^U" -> 0 - (IF lastud /= 0 THEN lastud ELSE win_nl \div 3)
    IN  Outcome(win_scroll([S EXCEPT !.win.scrolling = 1, !.win.lastud = lastud], cnt), 0)

a_tag(S, buf, c, mc) == Outcome(S, 0)

a_swtch(S, buf, c, mc) == IF c.arg \in {"h", "j", "k", "l"} THEN Outcome(S, 0) ELSE Outcome(S, 1)

a_run(S, buf, c, mc) == Outcome(S, 0)

\* the line of `o` and `O` opened before the switch to Insert mode
a_ins_OpenFirst(S, buf, c, mc) ==
    LET T == S.eb.text
        eol(cu1) == IF c.chr \in {"A", "o"} THEN buf_eol(T, cu1) ELSE cu1
        first(cu2) == IF c.chr \in {"I", "O"} THEN blkspn(T, buf_bol(T, cu2)) ELSE cu2
        switch(S1) == [SwitchToInsert(S1) EXCEPT !.cnti = c.count]
        at(pos) ==
            IF c.chr = "o" THEN Outcome(switch(insert([S EXCEPT !.cu = pos], "\n")), 0)
            ELSE IF c.chr = "O"
            THEN Outcome(switch([insert([S EXCEPT !.cu = pos], "\n") EXCEPT !.cu = pos]), 0)
            ELSE Outcome(switch([S EXCEPT !.cu = pos]), 0)
    IN  at(first(eol(IF c.chr = "a" /\ S.cu /= buf_eol(T, S.cu) THEN S.cu + 1 ELSE S.cu)))

a_ins(S, buf, c, mc) ==
    LET T == S.eb.text
        after(cu0) == IF c.chr = "a" /\ cu0 /= buf_eol(T, cu0) THEN cu0 + 1 ELSE cu0
        eol(cu1) == IF c.chr \in {"A", "o"} THEN buf_eol(T, cu1) ELSE cu1
        first(cu2) == IF c.chr \in {"I", "O"} THEN blkspn(T, buf_bol(T, cu2)) ELSE cu2
        open(S1, pos) ==
            IF c.chr = "o" THEN Outcome(insert(S1, "\n"), 0)
            ELSE IF c.chr = "O" THEN Outcome([insert(S1, "\n") EXCEPT !.cu = pos], 0)
            ELSE Outcome(S1, 0)
        at(pos) == open([SwitchToInsert([S EXCEPT !.cu = pos]) EXCEPT !.cnti = c.count], pos)
    IN  at(first(eol(after(S.cu))))

\* keys[c.chr].cmd(buf, c, m)
CallAction(S, buf, c, mc) ==
    LET fn == KeyFn(c.chr)
    IN  CASE fn = "a_d" -> a_d(S, buf, c, mc)
          [] fn = "a_c" -> a_c(S, buf, c, mc)
          [] fn = "a_y" -> a_y(S, buf, c, mc)
          [] fn = "a_pP" -> a_pP(S, buf, c, mc)
          [] fn = "a_m" -> a_m(S, buf, c, mc)
          [] fn = "a_ins" -> a_ins(S, buf, c, mc)
          [] fn = "a_run" -> a_run(S, buf, c, mc)
          [] fn = "a_scroll" -> a_scroll(S, buf, c, mc)
          [] fn = "a_swtch" -> a_swtch(S, buf, c, mc)
          [] fn = "a_tag" -> a_tag(S, buf, c, mc)
          [] fn = "a_write" -> a_write(S, buf, c, mc)
          [] fn = "a_exit" -> a_exit(S, buf, c, mc)


-----------------------------------------------------------------------------
(* Execution of the parsed commands *)

RECURSIVE docmd(_, _, _, _)

\* Insert runes stored in the lasti buffer
\* variant: the log replayed from its first rune whatever the command
ReplayInsert_FromStart(S) == insert(InsertAll(S, S.lasti.buf, 1), GKEsc)

ReplayInsert(S) ==
    LET p == IF S.rep.lastc.chr \in {"o", "O"} THEN 1 ELSE 0
    IN  insert(InsertAll(S, S.lasti.buf, p + 1), GKEsc)

\* variant: the repeat of `u` leaves the direction as it finds it
RepeatDirection_NoFlip(S) ==
    IF S.rep.lastc.chr = "u" THEN S
    ELSE [S EXCEPT !.obs.assert = @ \cup (IF S.rep.redo /= 0 THEN {"redo == 0"} ELSE {})]

\* if (lastc.chr == 'u') redo = !redo; else assert(redo == 0);
RepeatDirection(S) ==
    IF S.rep.lastc.chr = "u" THEN [S EXCEPT !.rep.redo = 1 - @]
    ELSE [S EXCEPT !.obs.assert = @ \cup (IF S.rep.redo /= 0 THEN {"redo == 0"} ELSE {})]

\* variant: the count of `.` is not used
RepeatCounts_Ignored(S, c) == S

\* if (c.count) { lastm.count = 1; lastc.count = c.count; }
RepeatCounts(S, c) ==
    IF c.count /= 0
    THEN [S EXCEPT !.rep.lastm.count = 1, !.rep.lastc.count = c.count]
    ELSE S

\* variant: the fragments are left as the repeated call stored them
Repeat_NoRestore(S, c) ==
    LET lock(S2) == [S2 EXCEPT !.lastf.locked = TRUE, !.lasti.locked = TRUE]
        again(S3) == docmd(S3, S3.rep.lastbuf, S3.rep.lastc, S3.rep.lastm)
        replay(S4) == IF S4.mode = Insert THEN ReplayInsert(S4) ELSE S4
        unlock(S5) == [S5 EXCEPT !.lastf.locked = FALSE, !.lasti.locked = FALSE]
        run(S1) ==
            IF S1.obs.assert /= {} THEN S1
            ELSE unlock(replay(again(lock(RepeatCounts(S1, c)))))
    IN  IF S.rep.lastc.chr = NUL THEN S
        ELSE IF S.rep.lastc.chr = "." THEN [S EXCEPT !.obs.assert = @ \cup {"lastc.chr != '.'"}]
        ELSE run(RepeatDirection(S))

\* variant: the repeat command is remembered as the undo command is
Repeat_Remembered(S, c) == [S EXCEPT !.rep.lastc = c]

\* Handle the repeat command
Repeat(S, c) ==
    LET cpyc == S.rep.lastc
        cpym == S.rep.lastm
        lock(S2) == [S2 EXCEPT !.lastf.locked = TRUE, !.lasti.locked = TRUE]
        again(S3) == docmd(S3, S3.rep.lastbuf, S3.rep.lastc, S3.rep.lastm)
        replay(S4) == IF S4.mode = Insert THEN ReplayInsert(S4) ELSE S4
        restore(S5) ==
            [S5 EXCEPT !.lastf.locked = FALSE, !.lasti.locked = FALSE,
                       !.rep.lastc = cpyc, !.rep.lastm = cpym]
        run(S1) == IF S1.obs.assert /= {} THEN S1 ELSE restore(replay(again(lock(RepeatCounts(S1, c)))))
    IN  IF cpyc.chr = NUL THEN S
        ELSE IF cpyc.chr = "." THEN [S EXCEPT !.obs.assert = @ \cup {"lastc.chr != '.'"}]
        ELSE run(RepeatDirection(S))

\* variant: the undo command leaves the direction as it finds it
Undo_NoToggle(S, c) ==
    LET undone(u) == [S EXCEPT !.eb = u.eb, !.cu = u.cu, !.rep.lastc = c]
    IN  undone(eb_undo(S.eb, S.rep.redo, S.cu))

\* Handle the undo command
\* variant: the undo command is not remembered
Undo_NotRemembered(S, c) ==
    LET undone(redo, u) == [S EXCEPT !.rep.redo = redo, !.eb = u.eb, !.cu = u.cu]
    IN  undone(1 - S.rep.redo, eb_undo(S.eb, 1 - S.rep.redo, S.cu))

Undo(S, c) ==
    LET undone(redo, u) ==
            [S EXCEPT !.rep.redo = redo, !.eb = u.eb, !.cu = u.cu, !.rep.lastc = c]
    IN  undone(1 - S.rep.redo, eb_undo(S.eb, 1 - S.rep.redo, S.cu))

\* variant: the undo direction is reset by the commands that have an
\* action only
docmd_KeepsDirection(S, buf, c, m) ==
    LET move(r) == IF r.ret = 0 THEN [r.S EXCEPT !.cu = r.m.end] ELSE r.S
        remember(a) ==
            IF a.ret /= 0 \/ risctrl(c.chr) THEN a.S
            ELSE [a.S EXCEPT !.rep.lastbuf = buf, !.rep.lastc = c, !.rep.lastm = m]
        act(S1) ==
            IF KeyFn(c.chr) = "0" THEN S
            ELSE remember(CallAction(S1, buf, c, m))
    IN  IF CIsMotion \in KeyFlags(c.chr)
        THEN move(CallMotion(S, FALSE, c, [beg |-> S.cu, end |-> 0, linewise |-> FALSE]))
        ELSE IF c.chr = "." THEN Repeat(S, c)
        ELSE IF c.chr = "u" THEN Undo(S, c)
        ELSE act([S EXCEPT !.rep.redo = 0])

docmd(S, buf, c, m) ==
    LET move(r) == IF r.ret = 0 THEN [r.S EXCEPT !.cu = r.m.end] ELSE r.S
        remember(a) ==
            IF a.ret /= 0 \/ risctrl(c.chr) THEN a.S
            ELSE [a.S EXCEPT !.rep.lastbuf = buf, !.rep.lastc = c, !.rep.lastm = m]
        act(S1) == IF KeyFn(c.chr) = "0" THEN S1 ELSE remember(CallAction(S1, buf, c, m))
    IN  IF CIsMotion \in KeyFlags(c.chr)
        THEN move(CallMotion(S, FALSE, c, [beg |-> S.cu, end |-> 0, linewise |-> FALSE]))
        ELSE IF c.chr = "." THEN Repeat(S, c)
        ELSE IF c.chr = "u" THEN Undo(S, c)
        ELSE act([S EXCEPT !.rep.redo = 0])

-----------------------------------------------------------------------------
(* Parsing of commands *)

BufferDQuote == "BufferDQuote"
BufferName == "BufferName"
CmdChar == "CmdChar"
CmdDouble == "CmdDouble"
CmdArg == "CmdArg"

Cmd0 == [count |-> 0, chr |-> NUL, arg |-> NUL]

\* variant: the reset leaves the target fragment where it was
ResetParsingState_KeepsTarget(P) ==
    [P EXCEPT !.m.count = 0, !.c.count = 0, !.buf = NUL, !.state = BufferDQuote]

\* Reset parsing state
ResetParsingState(P) ==
    [P EXCEPT !.m.count = 0, !.c.count = 0, !.buf = NUL, !.pcmd = "c", !.state = BufferDQuote]

Reset(S) == [S EXCEPT !.parser = ResetParsingState(S.parser), !.obs.didreset = TRUE]

\* err: puts("! invalid command"); Reset parsing state
Err(S) == Reset([S EXCEPT !.obs.printed = @ + 1])

\* the fragment pcmd points to
Pcmd(P) == IF P.pcmd = "c" THEN P.c ELSE P.m

SetPcmd(P, cmd) == IF P.pcmd = "c" THEN [P EXCEPT !.c = cmd] ELSE [P EXCEPT !.m = cmd]

\* variant: a zero is never part of a count
IsCountDigit_NeverZero(r, count) == isdigit(r) /\ r /= "0"

\* is the digit r part of the count
IsCountDigit(r, count) == isdigit(r) /\ (r /= "0" \/ count /= 0)

\* variant: no command name gets the default count 1
DefaultCount_AlwaysZero(r) == 0

\* the count of a command name that arrives at count 0
DefaultCount(r) == IF CZeroCount \in KeyFlags(r) THEN 0 ELSE 1

\* variant: any key is accepted in the motion fragment
GotArg_AnyKey(S) ==
    LET P == S.parser
        chr == Pcmd(P).chr
    IN  IF CHasMotion \in KeyFlags(chr)
        THEN [S EXCEPT !.parser.pcmd = "m",
                       !.obs.assert = @ \cup (IF P.pcmd = "c" THEN {} ELSE {"pcmd == &c"})]
        ELSE Reset(docmd([S EXCEPT !.obs.dispatched = @ + 1,
                                   !.obs.disp = [buf |-> P.buf, c |-> P.c, m |-> P.m]],
                         P.buf, P.c, P.m))

\* gotarg:
GotArg(S) ==
    LET P == S.parser
        chr == Pcmd(P).chr
    IN  IF P.pcmd = "m" /\ CIsMotion \notin KeyFlags(chr) THEN Err(S)
        ELSE IF CHasMotion \in KeyFlags(chr)
        THEN [S EXCEPT !.parser.pcmd = "m",
                       !.obs.assert = @ \cup (IF P.pcmd = "c" THEN {} ELSE {"pcmd == &c"})]
        ELSE Reset(docmd([S EXCEPT !.obs.dispatched = @ + 1,
                                   !.obs.disp = [buf |-> P.buf, c |-> P.c, m |-> P.m]],
                         P.buf, P.c, P.m))

\* gotdbl:
GotDbl(S) ==
    IF CHasArg \in KeyFlags(Pcmd(S.parser).chr)
    THEN [S EXCEPT !.parser.state = CmdArg]
    ELSE GotArg(S)

\* Input command count and name
InputCountAndName(S, r) ==
    LET P == S.parser
        cmd == Pcmd(P)
    IN  IF ~risascii(r) THEN Err(S)
        ELSE IF IsCountDigit(r, cmd.count)
        THEN [S EXCEPT !.parser = SetPcmd(P, [cmd EXCEPT !.count = U16(10 * cmd.count + DigitVal(r))])]
        ELSE LET cmd1 == [cmd EXCEPT !.count = IF cmd.count = 0 THEN DefaultCount(r) ELSE cmd.count,
                                     !.chr = r]
                 S1 == [S EXCEPT !.parser = SetPcmd(P, cmd1)]
             IN  IF CIsDouble \in KeyFlags(r)
                 THEN [S1 EXCEPT !.parser.state = CmdDouble]
                 ELSE GotDbl(S1)

\* Get optional double quote; the recursive call finds state CmdChar
GetDQuote(S, r) ==
    IF r = "\"" THEN [S EXCEPT !.parser.state = BufferName]
    ELSE InputCountAndName([S EXCEPT !.parser.state = CmdChar], r)

\* Input current buffer name
InputBufferName(S, r) ==
    IF ~risbuf(r) THEN Err(S)
    ELSE [S EXCEPT !.parser.buf = r, !.parser.state = CmdChar]

\* Get the second character of a command
GetSecondChar(S, r) == IF r /= Pcmd(S.parser).chr THEN Err(S) ELSE GotDbl(S)

\* Get the command argument
GetArg(S, r) ==
    GotArg([S EXCEPT !.parser = SetPcmd(S.parser, [Pcmd(S.parser) EXCEPT !.arg = r])])

\* variant: GKEsc is taken as the argument of a command that waits for one
UpdateParsingState_EscAsArg(S, r) ==
    IF r = GKEsc /\ S.parser.state /= CmdArg THEN Reset(S)
    ELSE CASE S.parser.state = BufferDQuote -> GetDQuote(S, r)
           [] S.parser.state = BufferName -> InputBufferName(S, r)
           [] S.parser.state = CmdChar -> InputCountAndName(S, r)
           [] S.parser.state = CmdDouble -> GetSecondChar(S, r)
           [] S.parser.state = CmdArg -> GetArg(S, r)

\* Update parsing state
UpdateParsingState(S, r) ==
    IF r = GKEsc THEN Reset(S)
    ELSE CASE S.parser.state = BufferDQuote -> GetDQuote(S, r)
           [] S.parser.state = BufferName -> InputBufferName(S, r)
           [] S.parser.state = CmdChar -> InputCountAndName(S, r)
           [] S.parser.state = CmdDouble -> GetSecondChar(S, r)
           [] S.parser.state = CmdArg -> GetArg(S, r)

\* variant: GKEsc goes to the command parser in either mode
cmd_parse_EscToParser(S, r) ==
    IF S.mode = Insert /\ r /= GKEsc THEN insert([S EXCEPT !.obs.inserts = @ + 1], r)
    ELSE UpdateParsingState(S, r)

cmd_parse(S, r) ==
    IF S.mode = Insert THEN insert([S EXCEPT !.obs.inserts = @ + 1], r)
    ELSE UpdateParsingState(S, r)

-----------------------------------------------------------------------------
(* The SDL backend (sdl.c).  A GEvent travels through the pipe of the     *)
(* channel as EventSize bytes; a byte is written here as the event it     *)
(* belongs to and its place in it.  put and got are history: the events   *)
(* whose put succeeded, and the byte runs GSdlNextEvent handed out.       *)

ChanIn == "ChanIn"
ChanOut == "ChanOut"

NoChan == [open |-> FALSE, nonblock |-> FALSE, pipe |-> <<>>]

\* the backend before GSdlInit: globalContext is NULL, no thread, no channel
NoGui ==
    [main |-> "start", globalContext |-> FALSE, thread |-> "none",
     needExit |-> 0, seen |-> 0, queue |-> <<>>, chan |-> NoChan,
     put |-> <<>>, got |-> <<>>, rc |-> 0, dropped |-> 0, fault |-> {},
     exited |-> FALSE, arrived |-> 0]

EventBytes(g) == [k \in 1..EventSize |-> [of |-> g, k |-> k]]

\* GEventChanNew: a pipe, both ends O_NONBLOCK
GEventChanNew == [open |-> TRUE, nonblock |-> TRUE, pipe |-> <<>>]

\* GEventChanKill: both ends closed, the channel freed
GEventChanKill(ch) == [ch EXCEPT !.open = FALSE]

\* variant: a write that finds too little room writes the bytes that fit
GEventChanOp_Partial(G, g, side) ==
    LET ch == G.chan
        room == PipeCap - Len(ch.pipe)
        avail == IF Len(ch.pipe) < EventSize THEN Len(ch.pipe) ELSE EventSize
    IN  IF ~ch.open
        THEN [G EXCEPT !.rc = -1, !.fault = @ \cup {"closed channel"}]
        ELSE IF side = ChanOut
        THEN IF room >= EventSize
             THEN [G EXCEPT !.chan.pipe = @ \o EventBytes(g), !.rc = 0, !.put = Append(@, g)]
             ELSE [G EXCEPT !.chan.pipe = @ \o SubSeq(EventBytes(g), 1, room), !.rc = -1,
                            !.dropped = @ + 1]
        ELSE IF avail = 0 THEN [G EXCEPT !.rc = -1]
        ELSE [G EXCEPT !.chan.pipe = SubSeq(@, avail + 1, Len(@)),
                       !.rc = IF avail = EventSize THEN 0 ELSE -1,
                       !.got = IF avail = EventSize
                               THEN Append(@, SubSeq(ch.pipe, 1, avail)) ELSE @]

\* GEventChanOp with GEventWriteFn on ChanOut (GEventChanPut) or with
\* GEventReadFn on ChanIn (GEventChanGet): rc is 0 only if the whole event
\* went through.  A write of one event is no longer than PIPE_BUF, so it is
\* all or nothing; with O_NONBLOCK no room gives -1, without it the caller
\* sleeps.  A read takes what is there, up to one event.
GEventChanOp(G, g, side) ==
    LET ch == G.chan
        room == PipeCap - Len(ch.pipe)
        avail == IF Len(ch.pipe) < EventSize THEN Len(ch.pipe) ELSE EventSize
    IN  IF ~ch.open
        THEN [G EXCEPT !.rc = -1, !.fault = @ \cup {"closed channel"}]
        ELSE IF side = ChanOut
        THEN IF room >= EventSize
             THEN [G EXCEPT !.chan.pipe = @ \o EventBytes(g), !.rc = 0, !.put = Append(@, g)]
             ELSE IF ch.nonblock
             THEN [G EXCEPT !.rc = -1, !.dropped = @ + 1]
             ELSE [G EXCEPT !.thread = "blocked"]
        ELSE IF avail = 0 THEN [G EXCEPT !.rc = -1]
        ELSE [G EXCEPT !.chan.pipe = SubSeq(@, avail + 1, Len(@)),
                       !.rc = IF avail = EventSize THEN 0 ELSE -1,
                       !.got = IF avail = EventSize
                               THEN Append(@, SubSeq(ch.pipe, 1, avail)) ELSE @]

\* HandleInput: SDL_WaitEventTimeout(&event, 100) and the switch on the
\* type of the event; o is what a read through a NULL globalContext does
HandleInput(G, o) ==
    IF G.queue = <<>> THEN G
    ELSE LET event == Head(G.queue)
             G1 == [G EXCEPT !.queue = Tail(@)]
         IN  CASE event.type = "SDL_QUIT" -> [G1 EXCEPT !.exited = TRUE]
               [] event.type = "SDL_TEXTINPUT" ->
                      GEventChanOp(G1, [id |-> event.id, type |-> "GKey"], ChanOut)
               [] event.type = "EXPOSED" ->
                      IF G1.globalContext THEN G1
                      ELSE [G1 EXCEPT !.fault = @ \cup {"NULL globalContext"},
                                      !.exited = (o = "SIGSEGV")]
               [] event.type = "RESIZED" ->
                      GEventChanOp(G1, [id |-> event.id, type |-> "GResize"], ChanOut)
               [] OTHER -> G1

\* InputThreadFn: while (1) { HandleInput(cont); if (cont->needExit) break; }
\* seen is the value the load of needExit gives the input thread
InputThreadFn(G, o) ==
    IF G.thread = "poll"
    THEN LET G1 == HandleInput(G, o)
         IN  IF G1.thread = "poll" THEN [G1 EXCEPT !.thread = "check"] ELSE G1
    ELSE [G EXCEPT !.thread = IF G.seen = 1 THEN "exited" ELSE "poll"]

\* GSdlContextNew: window, renderer, surface, font, channel, mutex and, last,
\* the input thread
GSdlContextNew(G) ==
    [G EXCEPT !.chan = GEventChanNew, !.thread = "poll", !.main = "created"]

\* GSdlInit: globalContext = GSdlContextNew(...)
GSdlInit(G) ==
    IF G.main = "start" THEN GSdlContextNew(G)
    ELSE [G EXCEPT !.globalContext = TRUE, !.main = "running"]

\* GSdlNextEvent: 1 with the event if GEventChanGet gave one
GSdlNextEvent(G) ==
    LET G1 == GEventChanOp(G, <<>>, ChanIn)
    IN  [G1 EXCEPT !.rc = IF G1.rc = 0 THEN 1 ELSE 0]

\* GSdlSync: SDL_PushEvent of a window-exposed event
GSdlSync(G) ==
    [G EXCEPT !.queue = Append(@, [id |-> G.arrived + 1, type |-> "EXPOSED"]),
              !.arrived = @ + 1]

\* variant: the join returns while the thread still runs
SDL_WaitThread_NoWait(G) == TRUE

\* SDL_WaitThread returns once the input thread has returned
SDL_WaitThread(G) == G.thread = "exited"

\* GSdlContextKill: needExit = 1, then SDL_WaitThread, then the mutex, the
\* channel and the rest are destroyed
GSdlContextKill(G) ==
    IF G.main = "running"
    THEN [G EXCEPT !.needExit = 1, !.main = "waiting"]
    ELSE [G EXCEPT !.chan = GEventChanKill(@), !.main = "dead"]

-----------------------------------------------------------------------------
(* The state machine: one action, a call of cmd_parse with the next rune   *)

NoDisp == [buf |-> NUL, c |-> Cmd0, m |-> Cmd0]

NoOp == [ok |-> FALSE, m |-> [beg |-> 0, end |-> 0, linewise |-> FALSE]]

Cur ==
    [parser |-> parser, mode |-> mode, lasti |-> lasti, cnti |-> cnti, lastf |-> lastf,
     eb |-> eb, cu |-> cu, win |-> win, yannon |-> yannon, ynum |-> ynum, ytip |-> ytip,
     rep |-> rep, obs |-> obs]

\* the observation starts afresh at each call; faults, failed assertions,
\* the numbers of runes fed and pending and the line-yank history persist
StartOf(S, r) ==
    [S EXCEPT !.obs = [r |-> r, inmode |-> S.mode, before |-> S.parser, printed |-> 0,
                       dispatched |-> 0, disp |-> NoDisp, didreset |-> FALSE,
                       inserts |-> 0, calls |-> {}, op |-> NoOp, lockedwrite |-> FALSE,
                       assert |-> S.obs.assert, fault |-> S.obs.fault,
                       pending |-> S.obs.pending, lwhist |-> S.obs.lwhist,
                       steps |-> S.obs.steps]]

Finish(n) ==
    [n EXCEPT !.obs.pending = IF n.obs.inmode = Insert THEN @
                              ELSE IF n.obs.didreset THEN 0 ELSE @ + 1]

\* the state cmd_parse(r) makes of the state S
Feed(S, r) == Finish(cmd_parse(StartOf(S, r), r))

\* the state after the runes of a sequence, one call each
RECURSIVE FeedAll(_, _)
FeedAll(S, rs) ==
    IF rs = <<>> THEN S
    ELSE LET rest(n) == IF n.mode \in {Command, Insert} THEN FeedAll(n, Tail(rs)) ELSE n
         IN  rest(Feed(S, Head(rs)))

\* the state after cmd_parse(r)
After(r) == Feed(Cur, r)

\* the same, the call counted
Counted(n) == [n EXCEPT !.obs.steps = @ + 1]

\* a failed assertion aborts; a host call outside its contract is not followed
Halted == obs.fault \/ obs.assert /= {}

Stopped(n) == n.obs.fault \/ n.obs.assert /= {}

Bounded(n) ==
    /\ Len(n.eb.text) <= MaxText
    /\ n.cu >= 0 /\ n.cu <= MaxCu
    /\ n.win.top <= MaxCu
    /\ Len(n.yannon.r) <= MaxText + 2
    /\ Len(n.eb.ulog) <= MaxCommits + 1

\* the call is taken when the program had not stopped and its result is
\* within the bounds of the model
Within(n) ==
    Stopped(n) \/ (Bounded(n) /\ n.parser.c.count <= MaxCount
                               /\ n.parser.m.count <= MaxCount)

Commit(n) ==
    /\ parser' = n.parser /\ mode' = n.mode /\ lasti' = n.lasti /\ cnti' = n.cnti
    /\ lastf' = n.lastf /\ eb' = n.eb /\ cu' = n.cu /\ win' = n.win
    /\ yannon' = n.yannon /\ ynum' = n.ynum /\ ytip' = n.ytip /\ rep' = n.rep
    /\ obs' = n.obs
    /\ gui' = gui

\* the call with result n, the limit-th at most
Take(n, limit) ==
    /\ ~Halted
    /\ n.obs.steps <= limit
    /\ Within(n)
    /\ Commit(n)

\* the call with result n, leaving MaxPending runes pending at most
TakePending(n) ==
    /\ ~Halted
    /\ n.obs.pending <= MaxPending
    /\ Stopped(n) \/ Bounded(n)
    /\ Commit(n)

\* the call with result n
TakeAny(n) ==
    /\ ~Halted
    /\ Stopped(n) \/ Bounded(n)
    /\ Commit(n)

ParserInit == [buf |-> NUL, c |-> Cmd0, m |-> Cmd0, pcmd |-> "c", state |-> BufferDQuote]

\* the state after construction, with the text T in the buffer
InitRecord(T) ==
    [parser |-> ParserInit,
     mode |-> Command,
     lasti |-> [buf |-> <<>>, locked |-> FALSE],
     cnti |-> 0,
     lastf |-> [locked |-> FALSE, chr |-> NUL, arg |-> NUL],
     eb |-> [text |-> T, marks |-> [n \in {} |-> NoMark], ulog |-> <<T>>, upos |-> 1],
     cu |-> 0,
     win |-> [top |-> 0, scrolling |-> 0, lastud |-> 0, exiting |-> 0],
     yannon |-> [r |-> <<>>, linemode |-> FALSE],
     ynum |-> [i \in 0..(RingSize - 1) |-> [r |-> <<>>, linemode |-> FALSE]],
     ytip |-> 0,
     rep |-> [lastbuf |-> NUL, lastc |-> Cmd0, lastm |-> Cmd0, redo |-> 0],
     obs |-> [r |-> NUL, inmode |-> Command, before |-> ParserInit, printed |-> 0,
              dispatched |-> 0, disp |-> NoDisp, didreset |-> FALSE,
              inserts |-> 0, calls |-> {}, op |-> NoOp, lockedwrite |-> FALSE,
              assert |-> {}, fault |-> FALSE, pending |-> 0, lwhist |-> <<>>, steps |-> 0]]

\* the variables hold the state n
Is(n) ==
    /\ parser = n.parser /\ mode = n.mode /\ lasti = n.lasti /\ cnti = n.cnti
    /\ lastf = n.lastf /\ eb = n.eb /\ cu = n.cu /\ win = n.win
    /\ yannon = n.yannon /\ ynum = n.ynum /\ ytip = n.ytip /\ rep = n.rep
    /\ obs = n.obs
    /\ gui = NoGui

InitWith(T) == Is(InitRecord(T))

\* the call with result n, the limit-th at most, on a text of any length
TakeSteps(n, limit) ==
    /\ ~Halted
    /\ n.obs.steps <= limit
    /\ Commit(n)

\* the same, while the counts typed stay at most or below
TakeCounted(n, limit, most) ==
    /\ ~Halted
    /\ n.obs.steps <= limit
    /\ n.parser.c.count <= most /\ n.parser.m.count <= most
    /\ Commit(n)

-----------------------------------------------------------------------------
(* Spec: the parser, fed every kind of rune, for MaxSteps runes *)

Texts == {<<"a", " ", "b", "\n">>}
Runes == {"\"", "1", "0", "d", "w", "m", "é", GKEsc}

Init == \E T \in Texts : InitWith(T)

Next ==
    \E r \in Runes :
        Take(Counted(After(r)), MaxSteps)

Spec == Init /\ [][Next]_vars

-----------------------------------------------------------------------------
(* Properties of the parser, checked under Spec *)

\* the parser as Reset parsing state leaves it
ParserIsReset ==
    /\ parser.state = BufferDQuote
    /\ parser.c.count = 0 /\ parser.m.count = 0
    /\ parser.buf = NUL
    /\ parser.pcmd = "c"

\* C1: after a cmd_parse call in Command mode that called docmd or printed
\* the parse error, the parser is in its reset state (phase BufferDQuote,
\* both counts 0, register name 0, target the main fragment); and between
\* two calls the phase is BufferDQuote iff no rune of a partial command is
\* pending.
C1_ResetAfterDispatchOrError ==
    /\ (obs.inmode = Command /\ (obs.dispatched > 0 \/ obs.printed > 0)) => ParserIsReset
    /\ (parser.state = BufferDQuote) <=> (obs.pending = 0)

\* a command with register, operator and motion was dispatched
C1_Witness ==
    /\ obs.dispatched = 1
    /\ obs.before.buf /= NUL /\ obs.before.c.count = 1 /\ obs.before.pcmd = "m"
    /\ ParserIsReset /\ obs.pending = 0

\* C2: in Command mode GKEsc, in whatever phase it arrives, puts the parser
\* in its reset state, calls docmd not at all, prints nothing and leaves
\* buffer, cursor and mode as they were.
C2_EscResetsSilently ==
    [][(mode = Command /\ obs'.r = GKEsc) =>
          /\ ParserIsReset'
          /\ obs'.dispatched = 0 /\ obs'.printed = 0
          /\ eb' = eb /\ cu' = cu /\ mode' = mode]_vars

\* GKEsc arrived while an argument of the motion of an operator was awaited
C2_Witness ==
    /\ obs.r = GKEsc /\ obs.inmode = Command
    /\ obs.before.state = CmdArg /\ obs.before.pcmd = "m"
    /\ ParserIsReset

\* the runes the phases BufferName, CmdChar and CmdDouble do not accept
BadForPhase(P, r) ==
    /\ r /= GKEsc
    /\ \/ P.state = BufferName /\ ~risbuf(r)
       \/ P.state \in {BufferDQuote, CmdChar} /\ r /= "\"" /\ ~risascii(r)
       \/ P.state = CmdChar /\ ~risascii(r)
       \/ P.state = CmdDouble /\ r /= Pcmd(P).chr

\* the name of a key without IsMotion arrives for the motion fragment
NonMotionName(P, r) ==
    /\ r /= GKEsc /\ risascii(r)
    /\ P.state = CmdChar /\ P.pcmd = "m"
    /\ ~IsCountDigit(r, P.m.count)
    /\ CIsMotion \notin KeyFlags(r)

\* what a parse error does and leaves alone
ErrorStep ==
    /\ obs'.printed = 1 /\ obs'.dispatched = 0
    /\ ParserIsReset'
    /\ eb' = eb /\ cu' = cu
    /\ yannon' = yannon /\ ynum' = ynum /\ ytip' = ytip
    /\ rep' = rep

\* C3: in Command mode a rune the phase does not accept (not a lowercase
\* letter or digit in BufferName, not ASCII in CmdChar, not the fragment's
\* chr in CmdDouble) prints one line, resets the parser, dispatches nothing
\* and leaves buffer, cursor, yank slots and repeat memory unchanged; so
\* does the name of a key without IsMotion and without HasArg that arrives
\* for the motion fragment; a key without IsMotion that has HasArg is
\* refused in the same way only when its argument arrives.
C3_ParseError ==
    [][(/\ mode = Command
        /\ \/ BadForPhase(parser, obs'.r)
           \/ NonMotionName(parser, obs'.r) /\ CHasArg \notin KeyFlags(obs'.r)
           \/ /\ obs'.r /= GKEsc
              /\ parser.state = CmdArg /\ parser.pcmd = "m"
              /\ CIsMotion \notin KeyFlags(parser.m.chr))
       => ErrorStep]_vars

\* the argument of `m` arrived after an operator and was refused
C3_Witness ==
    /\ obs.inmode = Command /\ obs.printed = 1 /\ obs.dispatched = 0
    /\ obs.before.state = CmdArg /\ obs.before.pcmd = "m" /\ obs.before.m.chr = "m"
    /\ ParserIsReset

\* C3 as stated: every name of a key without IsMotion is refused as soon as
\* it arrives for the motion fragment.
C3_Original ==
    [][(/\ mode = Command
        /\ BadForPhase(parser, obs'.r) \/ NonMotionName(parser, obs'.r))
       => ErrorStep]_vars

-----------------------------------------------------------------------------
(* SpecDigits: counts of up to MaxPending digits, long enough to leave the *)
(* sixteen bits of a count                                                 *)

DigitRunes == {"6", "5", "3", "0", "d", GKEsc}

NextDigits ==
    \E r \in DigitRunes :
        TakePending(After(r))

SpecDigits == Init /\ [][NextDigits]_vars

\* C4: a digit that arrives where a count or a command name is expected is
\* appended to the count of the current fragment (count = count*10 + digit,
\* kept in sixteen bits) iff it is not '0' or that count is non-zero, and
\* nothing is dispatched; a '0' that arrives at count zero is dispatched as
\* the command `0`, handled by m_bol.  The main fragment and the motion
\* fragment each have their own count.
C4_CountDigits ==
    [][(mode = Command /\ parser.state \in {BufferDQuote, CmdChar} /\ isdigit(obs'.r)) =>
          LET r == obs'.r
              cnt == Pcmd(parser).count
          IN  IF r /= "0" \/ cnt /= 0
              THEN /\ parser' = SetPcmd([parser EXCEPT !.state = CmdChar],
                                        [Pcmd(parser) EXCEPT
                                            !.count = (10 * cnt + DigitVal(r)) % CountMod])
                   /\ obs'.dispatched = 0 /\ obs'.printed = 0
              ELSE /\ obs'.dispatched = 1 /\ obs'.printed = 0
                   /\ (IF parser.pcmd = "c" THEN obs'.disp.c ELSE obs'.disp.m)
                         = [Pcmd(parser) EXCEPT !.chr = "0", !.count = 1]
                   /\ \E call \in obs'.calls :
                         /\ call.fn = "m_bol" /\ call.chr = "0"
                         /\ call.ismotion = (parser.pcmd = "m")]_vars

\* a '0' became the last digit of the count of a motion, beside a main
\* count that stayed as typed
C4_Witness ==
    /\ obs.r = "0" /\ obs.inmode = Command
    /\ obs.before.pcmd = "m" /\ obs.before.m.count = 5
    /\ parser.m.count = 50 /\ parser.c.count = 3 /\ parser.state = CmdChar

-----------------------------------------------------------------------------
(* SpecCount: the counts that reach the motion handlers, for MaxSteps      *)
(* runes of counts, an operator, motions with and without ZeroCount and    *)
(* the two motions that delegate                                           *)

CountTexts == {<<"b", "\n", "a", "b", "\n">>}
CountRunes == {"2", "d", "j", "_", "G", "f", "b", ";"}

InitCount == \E T \in CountTexts : InitWith(T)

NextCount ==
    \E r \in CountRunes :
        Take(Counted(After(r)), MaxSteps)

SpecCount == InitCount /\ [][NextCount]_vars

\* the flags of the key that names a fragment
FlagsOf(cmd) == KeyFlags(cmd.chr)

\* C5: a fragment without typed count is dispatched with count 1, or with
\* count 0 if its key has ZeroCount; the keys table calls a motion handler
\* with count 0 only for a key with ZeroCount, also when the count is the
\* product the operator makes; m_repf calls m_find with its own count and
\* m_line calls m_jk with its count less one, which is 0 for a plain `_`.
C5_ZeroCount ==
    /\ obs.dispatched > 0 =>
          /\ obs.disp.c.count = 0 => CZeroCount \in FlagsOf(obs.disp.c)
          /\ (CHasMotion \in FlagsOf(obs.disp.c) /\ obs.disp.m.count = 0)
                => CZeroCount \in FlagsOf(obs.disp.m)
    /\ \A call \in obs.calls :
          /\ (call.via = "keys" /\ call.count = 0) => CZeroCount \in KeyFlags(call.chr)
          /\ call.via = "m_repf" =>
                \E by \in obs.calls : by.fn = "m_repf" /\ by.count = call.count
          /\ call.via = "m_line" =>
                \E by \in obs.calls : by.fn = "m_line" /\ call.count = by.count - 1

\* `G` without count reached m_G with count 0 as the operand of `d`, and
\* the command is remembered for `.`
C5_Witness ==
    /\ obs.dispatched = 1 /\ obs.disp.c.chr = "d" /\ obs.disp.m.chr = "G"
    /\ \E call \in obs.calls : call.fn = "m_G" /\ call.ismotion /\ call.count = 0
    /\ rep.lastm.chr = "G"

\* C5 as stated: no handler of a key without ZeroCount is called with
\* count 0, whoever calls it.
C5_Original ==
    \A call \in obs.calls : call.count = 0 => CZeroCount \in KeyFlags(call.chr)

-----------------------------------------------------------------------------
(* SpecInsert: the two modes, with the keys that enter Insert mode, runes  *)
(* that are commands in one mode and text in the other, and GKEsc          *)

InsertTexts == {<<"a", "\n">>}
InsertRunes == {"i", "o", "c", "w", "\"", "2", ".", GKEsc}

InitInsert == \E T \in InsertTexts : InitWith(T)

NextInsert ==
    \E r \in InsertRunes :
        Take(Counted(After(r)), MaxSteps)

SpecInsert == InitInsert /\ [][NextInsert]_vars

InsertKeys == {"c", "i", "I", "a", "A", "o", "O"}

\* C6: the mode is Command at first; in Insert mode each rune given to
\* cmd_parse goes to insert() once, never to the parser or to docmd, and
\* the parser state stays as it is; the mode leaves Insert only with GKEsc
\* and leaves Command only through the dispatch of `c` or of one of
\* `i I a A o O` that succeeded.
C6_Modes ==
    /\ mode = Command
    /\ [][/\ mode = Insert =>
                /\ obs'.inserts = 1 /\ obs'.dispatched = 0 /\ obs'.printed = 0
                /\ parser' = parser
          /\ (mode = Insert /\ mode' = Command) => obs'.r = GKEsc
          /\ (mode = Command /\ mode' = Insert) =>
                /\ obs'.inserts = 0 /\ obs'.dispatched = 1
                /\ obs'.disp.c.chr \in InsertKeys
                /\ rep'.lastc = obs'.disp.c]_vars

\* in Insert mode, entered by `c` with a motion, a double quote became text
C6_Witness ==
    /\ obs.inmode = Insert /\ mode = Insert /\ obs.r = "\""
    /\ obs.inserts = 1 /\ parser = obs.before
    /\ rep.lastc.chr = "c"
    /\ \E i \in 1..Len(eb.text) : eb.text[i] = "\""

-----------------------------------------------------------------------------
(* SpecMotion: the operators `y`, `d` and `c` with motions of every        *)
(* family, a find whose argument is the newline among them                 *)

MotionTexts == {<<"a", "b", "\n", "a", "b", "\n">>}
MotionRunes == {"y", "d", "c", "F", "\n", "w", "G", "l", "/", GKEsc}

InitMotion == \E T \in MotionTexts : InitWith(T)

NextMotion ==
    \E r \in MotionRunes :
        Take(Counted(After(r)), MaxSteps)

SpecMotion == InitMotion /\ [][NextMotion]_vars

\* C7: every motion handler called as an operand that returns success
\* leaves a region with m.beg <= m.end (offsets are unsigned).
C7_OperandRegionOrdered ==
    \A call \in obs.calls :
        (call.ismotion /\ call.ret = 0) => ULe(call.beg, call.end)

\* C8: after a dispatch of `y`, `d` or `c` that succeeded the selection
\* marks satisfy SelBeg <= SelEnd, and the anonymous yank slot holds the
\* runes the region of the motion had before the call, in line mode iff
\* the motion is linewise.
C8_YankSlotAndMarks ==
    [][(/\ mode = Command
        /\ obs'.dispatched = 1 /\ obs'.disp.c.chr \in {"y", "d", "c"}
        /\ obs'.op.ok /\ rep'.lastc = obs'.disp.c)
       => /\ ULe(eb_getmark(eb', SelBeg), eb_getmark(eb', SelEnd))
          /\ yannon' = [r |-> Span(eb.text, obs'.op.m.beg, obs'.op.m.end),
                        linemode |-> obs'.op.m.linewise]]_vars

-----------------------------------------------------------------------------
(* SpecRing: the yank ring.  The editor has made up to MaxYanks line-wise  *)
(* yanks of the line "a" and perhaps one of the empty line after it, and   *)
(* is then fed any RingSteps runes: yanks of either kind, a move, a put    *)
(* from a numbered register.                                               *)

RingText == <<"a", "\n">>
RingRunes == {"y", "_", "w", "\"", "2", "P"}

\* i times `y_`
RECURSIVE LineYanks(_)
LineYanks(i) == IF i = 0 THEN <<>> ELSE <<"y", "_">> \o LineYanks(i - 1)

\* the runes fed before: i yanks of the first line, then perhaps a move to
\* the line after it and a yank there
RingScripts ==
    {LineYanks(i) : i \in 0..MaxYanks}
        \cup {LineYanks(i) \o <<"w", "y", "_">> : i \in 0..MaxYanks}

InitRing == \E rs \in RingScripts : Is(FeedAll(InitRecord(RingText), rs))

NextRing ==
    \E r \in RingRunes :
        Take(Counted(After(r)), RingSteps)

SpecRing == InitRing /\ [][NextRing]_vars

\* a dispatch of `y`, `d` or `c` whose motion succeeded, in the next state
Yanked == obs'.dispatched = 1 /\ obs'.disp.c.chr \in {"y", "d", "c"} /\ obs'.op.ok

\* C9: after N line-wise yanks the register "k, for k from 1 to the lesser
\* of N and 9, is the slot ynum[(ytip + k - 1) mod 9] and holds the text of
\* the k-th latest of them; a line-wise yank moves ytip to (ytip + 8) mod 9
\* and writes that slot only; a character-wise yank leaves ytip and all
\* the slots alone; a put from the register "k inserts the text of the slot
\* ynum[(ytip + k - 1) mod 9], once for each unit of its count.
C9_YankRing ==
    /\ [](\A k \in 1..RingSize :
              k <= Len(obs.lwhist) =>
                  ynum[(ytip + k - 1) % RingSize] = [r |-> obs.lwhist[k], linemode |-> TRUE])
    /\ [][/\ (Yanked /\ obs'.op.m.linewise) =>
                /\ ytip' = (ytip + 8) % RingSize
                /\ \A i \in 0..(RingSize - 1) : i /= ytip' => ynum'[i] = ynum[i]
          /\ (Yanked /\ ~obs'.op.m.linewise) => (ytip' = ytip /\ ynum' = ynum)
          /\ (obs'.dispatched = 1 /\ obs'.disp.c.chr = "P"
                                   /\ obs'.disp.buf \in Digits \ {"0"}) =>
                LET y == ynum[(ytip + DigitVal(obs'.disp.buf) - 1) % RingSize]
                IN  /\ ytip' = ytip /\ ynum' = ynum
                    /\ Len(eb'.text) = Len(eb.text) + obs'.disp.c.count * Len(y.r)
                    /\ Span(eb'.text, cu', cu' + Len(y.r)) = y.r]_vars

\* the tenth line-wise yank, of a text that differs from the one before,
\* has taken the slot of the first
C9_Witness ==
    /\ obs.steps = RingSteps
    /\ Len(obs.lwhist) = RingSize + 1
    /\ obs.dispatched = 1 /\ obs.op.ok /\ obs.op.m.linewise
    /\ obs.lwhist[1] /= obs.lwhist[2]
    /\ ytip = RingSize - 1 /\ ynum[ytip].r = obs.lwhist[1]

-----------------------------------------------------------------------------
(* SpecLog: insertions long enough to fill the log, one of them with a    *)
(* count, and their replay.  The rune typed in Insert mode is GKBackspace  *)
(* with the cursor at offset 0: it is logged as any rune is and leaves the *)
(* text alone.                                                             *)

LogText == <<"a", "\n">>
LogCommands == {"i", ".", GKEsc}
LogTyped == {GKBackspace, GKEsc}

\* nothing was fed before, or the insertion `2i` was begun
LogScripts == {<<>>, <<"2", "i">>}

InitLog == \E rs \in LogScripts : Is(FeedAll(InitRecord(LogText), rs))

NextLog ==
    \E r \in (IF mode = Insert THEN LogTyped ELSE LogCommands) :
        TakeAny(After(r))

SpecLog == InitLog /\ [][NextLog]_vars

\* C10: the insertion log never holds more than MaxInsert runes, and no
\* call of insert() that finds the log locked, whether for a typed rune,
\* for the repetition at GKEsc or for the replay of `.`, leaves it with
\* another length.
C10_InsertLog ==
    /\ Len(lasti.buf) <= MaxInsert
    /\ ~obs.lockedwrite

\* the rune typed after the log was full emptied and locked it, and the
\* next typed rune found it locked
C10_Witness ==
    /\ mode = Insert /\ obs.inmode = Insert /\ obs.inserts = 1
    /\ obs.r = GKBackspace
    /\ lasti.locked /\ Len(lasti.buf) = 0
    /\ obs.before = parser /\ rep.lastc.chr = "i"
    /\ ~obs.lockedwrite

-----------------------------------------------------------------------------
(* SpecUndo: up to MaxCommits deletions committed one by one, then undo,   *)
(* repeat and a yank (an action that edits nothing) in any order           *)

UndoText == <<"a", "b", "c", "\n">>
UndoRunes == {"x", "u", ".", "y", "l"}

\* k deletions of one rune, each committed
UndoScripts == {[i \in 1..k |-> "x"] : k \in 0..MaxCommits}

InitUndo == \E rs \in UndoScripts : Is(FeedAll(InitRecord(UndoText), rs))

NextUndo == \E r \in UndoRunes : Take(Counted(After(r)), MaxSteps)

SpecUndo == InitUndo /\ [][NextUndo]_vars

\* this step dispatched the command chr from the main fragment
Dispatched(chr) == obs'.dispatched = 1 /\ obs'.disp.c.chr = chr

\* C11 as stated: whenever `u` is dispatched, a second `u` fed right after
\* it gives back the text that the buffer held before the first.
C11_Original ==
    [][Dispatched("u") => Feed(Cur', "u").eb.text = eb.text]_vars

\* C11: every `u` inverts the direction flag, so that a second `u` fed
\* right after it calls the host undo in the opposite direction; when the
\* first `u` found a record to step over, the second gives back the text
\* that the buffer held before the first.
C11_UndoTwice ==
    [][Dispatched("u") =>
          /\ rep'.redo = 1 - rep.redo
          /\ eb' = eb_undo(eb, 1 - rep.redo, cu).eb
          /\ Feed(Cur', "u").rep.redo = rep.redo
          /\ Feed(Cur', "u").eb = eb_undo(eb', rep.redo, cu').eb
          /\ (eb'.upos /= eb.upos => Feed(Cur', "u").eb.text = eb.text)]_vars

\* a `u` has reverted a deletion, and a second `u` would redo it
C11_Witness ==
    /\ obs.dispatched = 1 /\ obs.disp.c.chr = "u"
    /\ rep.redo = 1 /\ eb.upos < Len(eb.ulog)
    /\ eb.text /= eb.ulog[eb.upos + 1]
    /\ Feed(Cur, "u").eb.text = eb.ulog[eb.upos + 1]

\* C12: the first `u` after an edit calls the host undo backwards, and
\* every `.` that repeats a `u` calls it once more in the direction of
\* that `u`, leaving the direction flag and the remembered command alone:
\* `u` and k times `.` walk k+1 records back.
C12_RepeatUndo ==
    [][/\ (Dispatched("u") /\ rep.redo = 0) =>
              (rep'.redo = 1 /\ eb' = eb_undo(eb, 1, cu).eb)
       /\ (Dispatched(".") /\ rep.lastc.chr = "u") =>
              /\ rep' = rep
              /\ eb' = eb_undo(eb, rep.redo, cu).eb
              /\ (rep.redo = 1 /\ eb.upos > 1 => eb'.upos = eb.upos - 1)]_vars

\* three deletions, `u` and two `.`: the text is the initial one again
C12_Witness ==
    /\ obs.steps = 3
    /\ obs.dispatched = 1 /\ obs.disp.c.chr = "." /\ rep.lastc.chr = "u"
    /\ Len(eb.ulog) = MaxCommits + 1 /\ eb.upos = 1
    /\ eb.text = UndoText

-----------------------------------------------------------------------------
(* `d` with a motion and `u` right after it, in SpecMotion                 *)

\* this step dispatched `d`, its motion succeeded and the editor runs on
Deleted == Dispatched("d") /\ obs'.op.ok /\ obs'.assert = {} /\ ~obs'.fault

\* C13 as stated: a `u` fed right after a `d` whose motion succeeded gives
\* back the text and the cursor that held before the `d`.
C13_Original ==
    [][Deleted => (Feed(Cur', "u").eb.text = eb.text /\ Feed(Cur', "u").cu = cu)]_vars

\* C13, the part that the code keeps: a `d` that removed at least one rune
\* is committed as one record, a `u` fed right after it gives back the
\* text that held before the `d`, and the cursor with it when the region
\* of the motion began at the cursor.
C13_DeleteUndone ==
    [][(Deleted /\ eb'.text /= eb.text) =>
          /\ eb'.upos = eb.upos + 1 /\ eb'.upos = Len(eb'.ulog)
          /\ Feed(Cur', "u").eb.text = eb.text
          /\ (obs'.op.m.beg = cu => Feed(Cur', "u").cu = cu)]_vars

\* a line-wise `d` from the middle of a line: `u` would give back the text
\* and put the cursor at the start of the line
C13_Witness ==
    /\ obs.dispatched = 1 /\ obs.disp.c.chr = "d" /\ obs.op.ok
    /\ obs.op.m.linewise /\ obs.op.m.beg = 0 /\ cu = 0
    /\ Len(eb.ulog) = 2 /\ eb.upos = 2 /\ eb.ulog[1] \in MotionTexts
    /\ Len(eb.text) < 6
    /\ Feed(Cur, "u").eb.text = eb.ulog[1] /\ Feed(Cur, "u").cu = 0

-----------------------------------------------------------------------------
(* SpecReg: commands given with a buffer name that is a letter, and the   *)
(* operators `y` and `d` doubled                                           *)

LinesText == <<"a", "\n", "b", "\n", "c", "\n">>
HelloText == <<"h", "e", "l", "l", "o", "\n">>
RegTexts == {LinesText, HelloText}
RegRunes == {"\"", "a", "y", "d", "p", "3", "w"}

\* nothing was fed before, or `"ayy` was
RegScripts == {<<>>, <<"\"", "a", "y", "y">>}

InitReg ==
    \E T \in RegTexts : \E rs \in RegScripts : Is(FeedAll(InitRecord(T), rs))

NextReg == \E r \in RegRunes : Take(Counted(After(r)), MaxSteps)

SpecReg == InitReg /\ [][NextReg]_vars

\* the editor waits for the first rune of a command
AtCommand == mode = Command /\ ParserIsReset /\ ~Halted

NamedYankPut == <<"\"", "a", "y", "y", "\"", "a", "p">>

\* C14: wherever a command may begin, the runes `"ayy` `"ap` leave the text
\* of the buffer as it was, and the cursor where it was or at the start of
\* the line below.
C14_NamedYankPut ==
    AtCommand =>
        /\ FeedAll(Cur, NamedYankPut).eb.text = eb.text
        /\ FeedAll(Cur, NamedYankPut).cu \in {cu, buf_eol(eb.text, cu) + 1}

\* `"ayy` was fed to the fresh editor, then `"ap`, a slot holding a yank
C14_Witness ==
    /\ obs.r = "p" /\ obs.before.buf = "a" /\ obs.before.state = CmdChar
    /\ rep.lastc.chr = "y" /\ yannon.r /= <<>>
    /\ eb.text \in RegTexts /\ Len(eb.ulog) = 1

\* the offset after the third line from the line of offset p
ThreeLinesEnd(T, p) == buf_eol(T, buf_eol(T, buf_eol(T, p) + 1) + 1) + 1

\* C15: with the cursor on a line that has two lines or more after it,
\* `3dd` removes that line and the two after it, newlines included, and
\* the register "1 holds them in line mode.
C15_ThreeLines ==
    (AtCommand /\ ThreeLinesEnd(eb.text, cu) <= Len(eb.text)) =>
        /\ FeedAll(Cur, <<"3", "d", "d">>).eb.text =
               Span(eb.text, 0, buf_bol(eb.text, cu))
                   \o Span(eb.text, ThreeLinesEnd(eb.text, cu), Len(eb.text))
        /\ FeedAll(Cur, <<"3", "d", "d">>).ynum[RingIndex(FeedAll(Cur, <<"3", "d", "d">>).ytip, "1")] =
               [r |-> Span(eb.text, buf_bol(eb.text, cu), ThreeLinesEnd(eb.text, cu)),
                linemode |-> TRUE]

\* on `hello` and a newline, cursor at offset 0
AtHello == AtCommand /\ eb.text = HelloText /\ cu = 0

Hello == <<"h", "e", "l", "l", "o">>

-----------------------------------------------------------------------------
(* SpecChange: `c` with the word motion on a line of three words, and the  *)
(* text typed in its place                                                 *)

ChangeText == <<"f", "o", "o", " ", "b", "a", "r", " ", "b", "a", "z", "\n">>
ChangeCommands == {"c", "w"}
ChangeTyped == {"Q", "U", "X", GKEsc}

\* the cursor is at the start of the line, or `w` took it to the second word
ChangeScripts == {<<>>, <<"w">>}

InitChange == \E rs \in ChangeScripts : Is(FeedAll(InitRecord(ChangeText), rs))

NextChange ==
    \E r \in (IF mode = Insert THEN ChangeTyped ELSE ChangeCommands) :
        TakeSteps(Counted(After(r)), ChangeSteps)

SpecChange == InitChange /\ [][NextChange]_vars

\* C17: on `foo bar baz` and a newline with the cursor at offset 4, the
\* runes `c` `w` `Q` `U` `U` `X` GKEsc give `foo QUUX baz` and a newline.
C17_ChangeWord ==
    (AtCommand /\ eb.text = ChangeText /\ cu = 4) =>
        FeedAll(Cur, <<"c", "w", "Q", "U", "U", "X", GKEsc>>).eb.text =
            <<"f", "o", "o", " ", "Q", "U", "U", "X", " ", "b", "a", "z", "\n">>

\* what those runes give: the blank after `bar` went with the word
C17_BlankRemoved ==
    (AtCommand /\ eb.text = ChangeText /\ cu = 4) =>
        /\ FeedAll(Cur, <<"c", "w">>).yannon = [r |-> <<"b", "a", "r", " ">>, linemode |-> FALSE]
        /\ FeedAll(Cur, <<"c", "w", "Q", "U", "U", "X", GKEsc>>).eb.text =
               <<"f", "o", "o", " ", "Q", "U", "U", "X", "b", "a", "z", "\n">>

-----------------------------------------------------------------------------
(* SpecWords: `d` with the word and the paragraph motion, repeated with    *)
(* and without a count, and undone                                         *)

ParText == <<"a", "\n", "\n", "b", "\n", "\n", "c", "\n">>
WordsText == <<"f", "o", "o", " ", "a", " ", "b", " ", "c", " ", "d", "\n">>
WordsTexts == {ParText, WordsText}
WordsRunes == {"d", "w", "}", "3", ".", "u"}

InitWords == \E T \in WordsTexts : InitWith(T)

NextWords == \E r \in WordsRunes : TakeSteps(Counted(After(r)), MaxSteps)

SpecWords == InitWords /\ [][NextWords]_vars

AtPar == AtCommand /\ eb.text = ParText /\ cu = 0

\* C18 as stated: `d}` at the start of `a`, two newlines, `b`, two
\* newlines, `c`, newline leaves the text from the second newline on, and
\* the register "1 holds `a` and two newlines in line mode.
C18_Original ==
    AtPar =>
        /\ FeedAll(Cur, <<"d", "}">>).eb.text = <<"\n", "b", "\n", "\n", "c", "\n">>
        /\ FeedAll(Cur, <<"d", "}">>).ynum[RingIndex(FeedAll(Cur, <<"d", "}">>).ytip, "1")] =
               [r |-> <<"a", "\n", "\n">>, linemode |-> TRUE]

\* C18: `d}` at the start of `a`, two newlines, `b`, two newlines, `c`,
\* newline leaves the text from the second newline on with the cursor at
\* offset 0, and the register "1 and the anonymous slot hold what was
\* removed, `a` and one newline, in line mode.
C18_DeleteParagraph ==
    AtPar =>
        /\ FeedAll(Cur, <<"d", "}">>).eb.text = <<"\n", "b", "\n", "\n", "c", "\n">>
        /\ FeedAll(Cur, <<"d", "}">>).cu = 0
        /\ FeedAll(Cur, <<"d", "}">>).ynum[RingIndex(FeedAll(Cur, <<"d", "}">>).ytip, "1")] =
               [r |-> <<"a", "\n">>, linemode |-> TRUE]
        /\ FeedAll(Cur, <<"d", "}">>).yannon = [r |-> <<"a", "\n">>, linemode |-> TRUE]

\* `d}` was fed to the editor on the three paragraphs
C18_Witness ==
    /\ obs.steps = 2 /\ obs.r = "}" /\ obs.dispatched = 1 /\ obs.disp.c.chr = "d"
    /\ obs.op = [ok |-> TRUE, m |-> [beg |-> 0, end |-> 2, linewise |-> TRUE]]
    /\ eb.ulog = <<ParText, <<"\n", "b", "\n", "\n", "c", "\n">>>>
    /\ ynum[ytip] = [r |-> <<"a", "\n">>, linemode |-> TRUE]

\* the remembered fragments as `.` with count n gives them to docmd
RepeatedCmd(n) == IF n > 0 THEN [rep.lastc EXCEPT !.count = n] ELSE rep.lastc
RepeatedMotion(n) == IF n > 0 THEN [rep.lastm EXCEPT !.count = 1] ELSE rep.lastm

\* C19: a `.` that repeats a command other than `u` has the effect of one
\* docmd call with the remembered buffer name and fragments, the command
\* count replaced by the count N of `.` and the motion count by 1 when
\* N > 0; it adds one undo record at most and leaves the remembered
\* fragments as they were.  After `dw` on `foo a b c d`, `3.` removes
\* `a b c ` with one record.
C19_RepeatCount ==
    /\ [](AtCommand /\ eb.text = WordsText /\ cu = 0 =>
             /\ FeedAll(Cur, <<"d", "w", "3", ".">>).eb.text = <<"d", "\n">>
             /\ FeedAll(Cur, <<"d", "w", "3", ".">>).eb.ulog =
                    <<WordsText, <<"a", " ", "b", " ", "c", " ", "d", "\n">>, <<"d", "\n">>>>)
    /\ [][(Dispatched(".") /\ rep.lastc.chr \notin {NUL, "u"} /\ obs'.assert = {}) =>
              /\ eb' = docmd(Cur, rep.lastbuf, RepeatedCmd(obs'.disp.c.count),
                             RepeatedMotion(obs'.disp.c.count)).eb
              /\ cu' = docmd(Cur, rep.lastbuf, RepeatedCmd(obs'.disp.c.count),
                             RepeatedMotion(obs'.disp.c.count)).cu
              /\ yannon' = docmd(Cur, rep.lastbuf, RepeatedCmd(obs'.disp.c.count),
                                 RepeatedMotion(obs'.disp.c.count)).yannon
              /\ Len(eb'.ulog) <= Len(eb.ulog) + 1
              /\ rep'.lastc = rep.lastc /\ rep'.lastm = rep.lastm]_vars

\* `dw` and `3.` were fed to the editor on the five words
C19_Witness ==
    /\ obs.steps = 4 /\ obs.r = "." /\ obs.dispatched = 1 /\ obs.disp.c.count = 3
    /\ rep.lastc = [chr |-> "d", count |-> 1, arg |-> NUL]
    /\ rep.lastm = [chr |-> "w", count |-> 1, arg |-> NUL]
    /\ Len(eb.ulog) = 3 /\ eb.ulog[1] = WordsText
    /\ eb.text = <<"d", "\n">> /\ yannon.r = <<"a", " ", "b", " ", "c", " ">>

-----------------------------------------------------------------------------
(* SpecIndent: new lines typed in Insert mode on lines with and without    *)
(* indentation, with the cursor at the end of the line and elsewhere       *)

IndentTexts ==
    {<<" ", " ", " ", " ", "x", "\n">>, <<" ", "\t", "x", "\n">>, <<" ", " ", "\n">>}
IndentCommands == {"A", "i", "l", "w"}
IndentTyped == {"\n", " ", GKEsc}

InitIndent == \E T \in IndentTexts : InitWith(T)

NextIndent ==
    \E r \in (IF mode = Insert THEN IndentTyped ELSE IndentCommands) :
        TakeSteps(Counted(After(r)), MaxSteps)

SpecIndent == InitIndent /\ [][NextIndent]_vars

\* the blank runes at the start of the line of offset p, those before p
Indent(T, p) ==
    Span(T, buf_bol(T, p), IF blkspn(T, buf_bol(T, p)) < p THEN blkspn(T, buf_bol(T, p)) ELSE p)

\* C20: a newline typed in Insert mode is inserted at the cursor and
\* followed by a copy of the blank runes that start the line and precede
\* the cursor, the cursor coming after the copy; the loop copies no more
\* runes than the line had before the cursor.  At the end of a line that
\* starts with k blank runes the copy has k runes and the cursor is at
\* column k of the new line.
C20_IndentNewline ==
    [][(mode = Insert /\ obs'.r = "\n" /\ cu <= Len(eb.text)) =>
          /\ eb'.text = Span(eb.text, 0, cu) \o <<"\n">> \o Indent(eb.text, cu)
                            \o Span(eb.text, cu, Len(eb.text))
          /\ cu' = cu + 1 + Len(Indent(eb.text, cu))
          /\ Len(Indent(eb.text, cu)) <= cu - buf_bol(eb.text, cu)
          /\ buf_get(eb.text, cu) = "\n" =>
                /\ Len(Indent(eb.text, cu)) = blkspn(eb.text, buf_bol(eb.text, cu)) - buf_bol(eb.text, cu)
                /\ buf_getlc(eb'.text, cu') =
                       [line |-> buf_getlc(eb.text, cu).line + 1,
                        col |-> Len(Indent(eb.text, cu))]]_vars

\* `A` and a newline on four blanks and `x`: the new line has four blanks
C20_Witness ==
    /\ mode = Insert /\ obs.r = "\n" /\ obs.steps = 2
    /\ eb.text = <<" ", " ", " ", " ", "x", "\n", " ", " ", " ", " ", "\n">>
    /\ cu = 10

-----------------------------------------------------------------------------
(* SpecMatch: `d` and `y` with the motion `%` on blocks in braces, the     *)
(* cursor on a delimiter or before one                                     *)

BlockText == <<"{", "\n", " ", " ", "b", "o", "d", "y", "\n", "}", "\n">>
MatchTexts == {BlockText, <<"{", "\n", " ", "}", "\n">>, <<"a", "(", "b", ")", "c", "\n">>}
MatchRunes == {"d", "y", "%", "j", "l"}

InitMatch == \E T \in MatchTexts : InitWith(T)

NextMatch == \E r \in MatchRunes : TakeSteps(Counted(After(r)), MaxSteps)

SpecMatch == InitMatch /\ [][NextMatch]_vars

\* the runes at the offsets [a, b) of T are blank
OnlyBlanks(T, a, b) == \A i \in a..(b - 1) : risblank(buf_get(T, i))

\* this step dispatched `d` or `y` with the motion `%`, which succeeded
MatchOperand ==
    /\ obs'.dispatched = 1 /\ obs'.disp.c.chr \in {"d", "y"} /\ obs'.disp.m.chr = "%"
    /\ obs'.op.ok

\* the offset `%` moves the cursor to
MatchOf(T, p) == m_match(Cur, FALSE, [chr |-> "%", count |-> 1, arg |-> NUL],
                         [beg |-> p, end |-> 0, linewise |-> FALSE]).m.end

\* the delimiter that `%` starts from: the first at or after the cursor
FoundAt(T, p) == match_seek(T, p)

Lesser(a, b) == IF a < b THEN a ELSE b
Greater(a, b) == IF a < b THEN b ELSE a

-----------------------------------------------------------------------------
(* SpecFail: motions that fail, alone and under `y`, `d` and `c`, before   *)
(* and after an edit and its undo                                          *)

FailTexts == {<<"a", "b", "\n", "(", "\n">>}
FailRunes == {"d", "c", "y", "h", "k", "%", "f", "n", "x", "u"}

InitFail == \E T \in FailTexts : InitWith(T)

NextFail == \E r \in FailRunes : Take(Counted(After(r)), MaxSteps)

SpecFail == InitFail /\ [][NextFail]_vars

\* this step dispatched a motion on its own, and its handler failed
MotionFailed ==
    /\ obs'.dispatched = 1 /\ CIsMotion \in KeyFlags(obs'.disp.c.chr)
    /\ \E call \in obs'.calls : call.via = "keys" /\ ~call.ismotion /\ call.ret /= 0

\* this step dispatched `y`, `d` or `c`, and the motion handler failed
OperandFailed ==
    /\ obs'.dispatched = 1 /\ obs'.disp.c.chr \in {"y", "d", "c"}
    /\ ~obs'.op.ok
    /\ \E call \in obs'.calls : call.via = "keys" /\ call.ismotion /\ call.ret /= 0

\* what a failed motion leaves alone, alone or under an operator
FailFrame ==
    /\ eb' = eb /\ cu' = cu /\ mode' = mode
    /\ yannon' = yannon /\ ynum' = ynum /\ ytip' = ytip
    /\ rep'.lastbuf = rep.lastbuf /\ rep'.lastc = rep.lastc /\ rep'.lastm = rep.lastm
    /\ obs'.printed = 0

\* C22 as stated: a motion that fails on its own leaves the cursor and
\* prints nothing; when the motion of `y`, `d` or `c` fails, buffer,
\* cursor, marks, yank slots, ytip, mode and the whole repeat memory, the
\* undo direction included, are unchanged.
C22_Original ==
    [][/\ MotionFailed => FailFrame
       /\ OperandFailed => (FailFrame /\ rep' = rep)]_vars

\* C22: a motion that fails on its own leaves the cursor and prints
\* nothing; when the motion of `y`, `d` or `c` fails, buffer, cursor,
\* marks, yank slots, ytip, mode and the remembered command, motion and
\* buffer name are unchanged; the undo direction is left alone by the
\* motion on its own and cleared by the operator.
C22_MotionFailure ==
    [][/\ MotionFailed => (FailFrame /\ rep' = rep)
       /\ OperandFailed => (FailFrame /\ rep'.redo = 0)]_vars

\* after an edit and its undo, `d` with a motion that failed
C22_Witness ==
    /\ obs.dispatched = 1 /\ obs.disp.c.chr = "d" /\ ~obs.op.ok
    /\ \E call \in obs.calls : call.via = "keys" /\ call.ismotion /\ call.ret /= 0
    /\ rep.lastc.chr = "u" /\ rep.redo = 0
    /\ eb.upos = 1 /\ Len(eb.ulog) = 2 /\ eb.text \in FailTexts

-----------------------------------------------------------------------------
(* SpecMemory: the memory of `.` under actions that succeed and fail,      *)
(* control characters, motions, undo, repeat and parse errors              *)

MemoryTexts == {<<"a", "b", "\n">>}
MemoryRunes == {"x", "p", "\"", "a", "u", ".", "h", "^E", "^W", "d"}

InitMemory == \E T \in MemoryTexts : InitWith(T)

NextMemory == \E r \in MemoryRunes : Take(Counted(After(r)), MaxSteps)

SpecMemory == InitMemory /\ [][NextMemory]_vars

\* the memory of `.` holds the command dispatched in this step
Stored ==
    /\ rep'.lastbuf = obs'.disp.buf /\ rep'.lastc = obs'.disp.c /\ rep'.lastm = obs'.disp.m

\* the memory of `.` is as it was
Kept == rep'.lastbuf = rep.lastbuf /\ rep'.lastc = rep.lastc /\ rep'.lastm = rep.lastm

\* this step dispatched a key that has an action, and the action returned 0
ActionSucceeded ==
    /\ obs'.dispatched = 1
    /\ CIsMotion \notin KeyFlags(obs'.disp.c.chr)
    /\ KeyFn(obs'.disp.c.chr) /= "0"
    /\ CallAction(Cur, obs'.disp.buf, obs'.disp.c, obs'.disp.m).ret = 0

\* C23 as stated: the memory of `.` takes the dispatched command exactly
\* when an action that is no motion returned success and its rune is no
\* control character; every other call of cmd_parse leaves it as it was.
C23_Original ==
    [][IF ActionSucceeded /\ obs'.disp.c.chr \notin Ctrl THEN Stored ELSE Kept]_vars

\* C23: the memory of `.` takes the dispatched command when an action
\* that is no motion returned success and its rune is no control
\* character; `u` puts itself in lastCmd and leaves lastBuf and lastMot;
\* every other call of cmd_parse (failed actions, control characters,
\* motions, `.`, parse errors, runes typed in Insert mode) leaves all
\* three as they were.
C23_RepeatMemory ==
    [][IF ActionSucceeded /\ obs'.disp.c.chr \notin Ctrl THEN Stored
       ELSE IF obs'.dispatched = 1 /\ obs'.disp.c.chr = "u"
            THEN /\ rep'.lastc = obs'.disp.c
                 /\ rep'.lastbuf = rep.lastbuf /\ rep'.lastm = rep.lastm
            ELSE Kept]_vars

\* `u` without a buffer name after a deletion made with the name `a`
C23_Witness ==
    /\ obs.dispatched = 1 /\ obs.disp.c.chr = "u" /\ obs.disp.buf = NUL
    /\ rep.lastc = obs.disp.c /\ rep.lastbuf = "a"
    /\ eb.upos = 1 /\ Len(eb.ulog) = 2

-----------------------------------------------------------------------------
(* SpecPut: `p` and `P` with and without count and buffer name, after a    *)
(* yank of runes or of a line                                              *)

PutText == <<"a", "b", "\n", "c", "\n">>
PutRunes == {"p", "P", "\"", "1", "2", "a", "l", "j"}

\* nothing was yanked, or a rune, or a line, or a line and then a rune
PutScripts == {<<>>, <<"y", "l">>, <<"y", "_">>, <<"j", "y", "_", "y", "l">>}

InitPut == \E rs \in PutScripts : Is(FeedAll(InitRecord(PutText), rs))

NextPut == \E r \in PutRunes : TakeCounted(Counted(After(r)), PutSteps, PutCount)

SpecPut == InitPut /\ [][NextPut]_vars

\* n copies of the runes r
RECURSIVE Copies(_, _)
Copies(r, n) == IF n = 0 THEN <<>> ELSE r \o Copies(r, n - 1)

\* the slot that the buffer name selects for a put
PutSlot(buf) == IF buf = NUL THEN yannon ELSE ynum[(ytip + DigitVal(buf) - 1) % RingSize]

\* the offset at which a put of the slot y by the key chr inserts
PutAt(y, chr) ==
    IF y.linemode THEN (IF chr = "P" THEN buf_bol(eb.text, cu) ELSE buf_eol(eb.text, cu) + 1)
    ELSE IF chr = "p" /\ buf_get(eb.text, cu) /= "\n" THEN cu + 1
    ELSE cu

\* the text T with the runes r put in at the offset at; past the end of the
\* text the host fills up with newlines when there is a rune to insert
WithRunesAt(T, at, r) ==
    IF r = <<>> THEN T ELSE Span(T, 0, at) \o r \o Span(T, at, Len(T))

\* C24: `p` and `P` read the anonymous slot when no buffer is named and
\* the ring when the name is "1.."9; with any other name they change
\* neither text nor cursor and are not remembered.  Otherwise count copies
\* of the slot are inserted and committed: at the start of the line of
\* the cursor (`P`) or after its newline (`p`) for a slot in line mode,
\* after the rune at the cursor for `p` and a slot in character mode
\* unless that rune is a newline, at the cursor for `P`; the cursor is
\* left where the text went in and the slots are as they were.
C24_Put ==
    [][(obs'.dispatched = 1 /\ obs'.disp.c.chr \in {"p", "P"}) =>
          IF obs'.disp.buf /= NUL /\ obs'.disp.buf \notin (Digits \ {"0"})
          THEN eb' = eb /\ cu' = cu /\ rep'.lastc = rep.lastc /\ rep'.lastbuf = rep.lastbuf
          ELSE /\ eb'.text =
                     WithRunesAt(eb.text, PutAt(PutSlot(obs'.disp.buf), obs'.disp.c.chr),
                                 Copies(PutSlot(obs'.disp.buf).r, obs'.disp.c.count))
               /\ cu' = PutAt(PutSlot(obs'.disp.buf), obs'.disp.c.chr)
               /\ eb'.ulog[eb'.upos] = eb'.text /\ eb'.upos = Len(eb'.ulog)
               /\ (eb'.text /= eb.text => eb'.upos = eb.upos + 1)
               /\ yannon' = yannon /\ ynum' = ynum /\ ytip' = ytip
               /\ rep'.lastc = obs'.disp.c /\ rep'.lastbuf = obs'.disp.buf]_vars

\* `2p` from the register "1 on the second line, the anonymous slot
\* holding a rune: two copies of the line `c` follow that line
C24_Witness ==
    /\ obs.dispatched = 1 /\ obs.disp = [buf |-> "1", m |-> obs.disp.m,
                                          c |-> [chr |-> "p", count |-> 2, arg |-> NUL]]
    /\ yannon = [r |-> <<"c">>, linemode |-> FALSE]
    /\ ynum[ytip] = [r |-> <<"c", "\n">>, linemode |-> TRUE]
    /\ eb.text = PutText \o <<"c", "\n", "c", "\n">> /\ cu = 5
    /\ Len(eb.ulog) = 2

-----------------------------------------------------------------------------
(* Leaving Insert mode, under SpecInsert: the typed GKEsc of an insertion  *)
(* entered with a count.                                                   *)

\* the count the insertion was entered with: the count of the insert
\* command, 1 for the change operator
EnteredCount == IF rep.lastc.chr = "c" THEN 1 ELSE rep.lastc.count

TypedEsc == mode = Insert /\ obs'.r = GKEsc /\ ~obs'.fault /\ obs'.assert = {}

\* the cursor once the log was replayed n more times
ReplayedCu(n) == cu + n * Len(lasti.buf)

\* C25: when GKEsc is typed in an insertion entered with count N, the runes
\* of the log are inserted N-1 more times at the cursor (N times in total
\* with the typing), the log is left unlocked with its runes unchanged and
\* nothing is written to it, the cursor then steps back by one unless the
\* rune before it is a newline (never below 0), the buffer is committed and
\* the mode is Command.
C25_LeaveInsert ==
    [][TypedEsc =>
        /\ cnti = EnteredCount
        /\ eb'.text = WithRunesAt(eb.text, cu, Copies(lasti.buf, EnteredCount - 1))
        /\ lasti'.buf = lasti.buf /\ ~lasti'.locked /\ ~obs'.lockedwrite
        /\ cu' = IF buf_get(eb'.text, ReplayedCu(EnteredCount - 1) - 1) = "\n"
                 THEN ReplayedCu(EnteredCount - 1)
                 ELSE ReplayedCu(EnteredCount - 1) - 1
        /\ cu' >= 0
        /\ eb'.upos = Len(eb'.ulog) /\ eb'.ulog[eb'.upos] = eb'.text
        /\ mode' = Command]_vars

\* 2o, w and GKEsc: the line "w" is opened twice
C25_Witness ==
    /\ obs.r = GKEsc /\ obs.inmode = Insert /\ mode = Command
    /\ rep.lastc.chr = "o" /\ rep.lastc.count = 2
    /\ lasti.buf = <<"\n", "w">>
    /\ eb.text = <<"a", "\n", "w", "\n", "w", "\n">>
    /\ cu = 4

-----------------------------------------------------------------------------
(* SpecOrder: the order of the changes of one dispatch, on a line of two   *)
(* runes with the keys that edit, set a mark and enter Insert mode.        *)

OrderTexts == {<<"a", "b", "\n">>}
OrderRunes == {"x", "m", "a", "i", "o", "O", "c", "l", GKEsc}

InitOrder == \E T \in OrderTexts : InitWith(T)

NextOrder == \E r \in OrderRunes : Take(Counted(After(r)), MaxSteps)

SpecOrder == InitOrder /\ [][NextOrder]_vars

\* the state and the result with which the action of the dispatched command
\* returns to docmd
Returned ==
    CallAction([StartOf(Cur, obs'.r) EXCEPT !.rep.redo = 0],
               obs'.disp.buf, obs'.disp.c, obs'.disp.m)

\* the dispatched key enters Insert mode
EntersInsert == ActionSucceeded /\ obs'.disp.c.chr \in InsertKeys

\* C26 as stated: the memory of `.` is written before the mode changes, so
\* the action of c, i, I, a, A, o, O returns in Command mode.
C26_Original ==
    [][EntersInsert => Returned.S.mode = Command]_vars

\* C26: when the action of a dispatch returns with success, the buffer, its
\* marks, the undo log, the cursor and the mode have the values the
\* dispatch ends with while the memory of `.` still has the old command;
\* the memory is written last.  A delete has committed the text it leaves;
\* c, i, I, a, A, o, O have set the mode to Insert inside the action, o and O
\* insert their newline after that (it is the first rune of the new log),
\* and none of them commits.
C26_DispatchOrder ==
    [][ActionSucceeded =>
        /\ Returned.S.eb = eb' /\ Returned.S.cu = cu'
        /\ Returned.S.mode = mode' /\ Returned.S.lasti = lasti'
        /\ Returned.S.rep.lastbuf = rep.lastbuf /\ Returned.S.rep.lastc = rep.lastc
        /\ Returned.S.rep.lastm = rep.lastm
        /\ (obs'.disp.c.chr \notin Ctrl => Stored)
        /\ (obs'.disp.c.chr \in {"x", "d"} =>
               /\ eb'.upos = Len(eb'.ulog) /\ eb'.ulog[eb'.upos] = eb'.text
               /\ mode' = Command)
        /\ (obs'.disp.c.chr \in InsertKeys =>
               /\ mode' = Insert
               /\ eb'.ulog = eb.ulog /\ eb'.upos = eb.upos
               /\ lasti'.buf = IF obs'.disp.c.chr \in {"o", "O"} THEN <<"\n">> ELSE <<>>)
       ]_vars

\* the state after o on the first line: Insert mode, the newline in the text
\* and in the log, o in the memory of `.`, nothing committed
C26_Witness ==
    /\ obs.dispatched = 1 /\ obs.disp.c.chr = "o" /\ obs.inmode = Command
    /\ mode = Insert /\ rep.lastc.chr = "o"
    /\ lasti.buf = <<"\n">>
    /\ eb.text = <<"a", "b", "\n", "\n">> /\ cu = 3
    /\ eb.ulog[eb.upos] = <<"a", "b", "\n">>

-----------------------------------------------------------------------------
(* SpecLocks: `.` after insertions, after a delete to a found rune and     *)
(* after other finds; b, t and ; are commands in one mode and text in the  *)
(* other.                                                                  *)

LocksText == <<"a", "b", "b", "\n">>
LocksRunes == {"i", "o", "d", "t", "b", ";", ".", "2", GKEsc}
LocksScripts == {<<>>, <<"d", "f", "b">>}

InitLocks == \E rs \in LocksScripts : Is(FeedAll(InitRecord(LocksText), rs))

\* the largest count typed
LocksCount == 4

NextLocks == \E r \in LocksRunes : TakeCounted(Counted(After(r)), MaxSteps, LocksCount)

SpecLocks == InitLocks /\ [][NextLocks]_vars

\* this step is a `.` that ran to its end
Repeated == Dispatched(".") /\ ~obs'.fault /\ obs'.assert = {}

\* the count with which `.` runs the remembered command again
RepeatedCount ==
    IF obs'.disp.c.count > 0 THEN obs'.disp.c.count ELSE rep.lastc.count

\* C27: in Command mode, between two calls of cmd_parse, neither the find
\* memory nor the insertion log is locked.  Every `.` ends in Command mode
\* and leaves the insertion log and the find memory as they were, with no
\* write to the log while it was locked.  A `.` that repeats i inserts the
\* runes of the log at the cursor, once for each unit of the count; a `.`
\* that repeats o inserts them after the end of the line, the newline that
\* is the first rune of the log once per copy only: the command puts it
\* in and the replay starts after it.
C27_RepeatLocks ==
    /\ [](mode = Command /\ ~Halted => ~lastf.locked /\ ~lasti.locked)
    /\ [][Repeated =>
              /\ mode' = Command
              /\ lasti' = lasti /\ lastf' = lastf /\ ~obs'.lockedwrite
              /\ (rep.lastc.chr = "i" =>
                     eb'.text = WithRunesAt(eb.text, cu, Copies(lasti.buf, RepeatedCount)))
              /\ (rep.lastc.chr = "o" =>
                     /\ lasti.buf[1] = "\n"
                     /\ eb'.text = WithRunesAt(eb.text, buf_eol(eb.text, cu),
                                               Copies(lasti.buf, RepeatedCount)))
       ]_vars

\* o, b, GKEsc and `.`: the line "b" is there twice, the log still holds
\* the newline and b
C27_Witness ==
    /\ obs.dispatched = 1 /\ obs.disp.c.chr = "." /\ mode = Command
    /\ rep.lastc.chr = "o"
    /\ lasti = [buf |-> <<"\n", "b">>, locked |-> FALSE]
    /\ ~lastf.locked
    /\ eb.text = <<"a", "b", "b", "\n", "b", "\n", "b", "\n">>

-----------------------------------------------------------------------------
(* SpecOverflow: insertions of any length.  The typing alternates between  *)
(* x at the start of the text and GKBackspace behind the x typed before,   *)
(* so that an insertion of more than MaxInsert runes stays on a short text *)
(* and a replay of the log, were there one, would show in the text.        *)

OverflowText == <<"a", "\n">>
OverflowCommands == {"i", "."}
OverflowScripts == {<<>>, <<"2", "i">>}

OverflowTyped == {GKEsc, IF cu = 0 THEN "x" ELSE GKBackspace}

InitOverflow == \E rs \in OverflowScripts : Is(FeedAll(InitRecord(OverflowText), rs))

NextOverflow ==
    \E r \in (IF mode = Insert THEN OverflowTyped ELSE OverflowCommands) :
        TakeAny(After(r))

SpecOverflow == InitOverflow /\ [][NextOverflow]_vars

\* a rune other than GKEsc is typed in Insert mode
Typed == mode = Insert /\ obs'.r /= GKEsc

\* the text after the rune r was typed at the cursor
TypedText(r) ==
    IF r = GKBackspace
    THEN IF cu > 0 THEN Span(eb.text, 0, cu - 1) \o Span(eb.text, cu, Len(eb.text))
         ELSE eb.text
    ELSE WithRunesAt(eb.text, cu, <<r>>)

\* C28: the rune typed when the log holds MaxInsert runes empties and locks
\* the log, prints nothing and is itself put in the text; while the log is
\* locked the typed runes leave it empty and locked; the GKEsc that ends
\* such an insertion leaves the text as typed whatever the count, unlocks
\* the empty log and goes to Command mode; and a `.` that repeats i with an
\* empty log leaves the text as it is and ends in Command mode.
C28_LogOverflow ==
    [][/\ (Typed /\ ~lasti.locked /\ Len(lasti.buf) = MaxInsert =>
              /\ lasti' = [buf |-> <<>>, locked |-> TRUE]
              /\ obs'.printed = 0
              /\ eb'.text = TypedText(obs'.r))
       /\ (Typed /\ lasti.locked =>
              /\ lasti' = lasti
              /\ eb'.text = TypedText(obs'.r))
       /\ (mode = Insert /\ obs'.r = GKEsc /\ lasti.locked =>
              /\ eb'.text = eb.text
              /\ lasti' = [buf |-> <<>>, locked |-> FALSE]
              /\ obs'.printed = 0
              /\ mode' = Command)
       /\ (Dispatched(".") /\ rep.lastc.chr = "i" /\ lasti.buf = <<>> =>
              /\ eb'.text = eb.text /\ eb'.ulog = eb.ulog
              /\ lasti' = lasti
              /\ mode' = Command)
      ]_vars

\* 2i, more than MaxInsert runes the last of which is an x, and GKEsc: the
\* x is in the text once, the log is empty
C28_Witness ==
    /\ obs.r = GKEsc /\ obs.inmode = Insert /\ mode = Command
    /\ rep.lastc.chr = "i" /\ rep.lastc.count = 2
    /\ lasti = [buf |-> <<>>, locked |-> FALSE]
    /\ eb.ulog = <<OverflowText, <<"x", "a", "\n">>>>
    /\ eb.text = <<"x", "a", "\n">>

-----------------------------------------------------------------------------
(* SpecBol: 0 and ^ alone and as the motion of d and y, on an indented     *)
(* line, from the first column, from the blank's end and from further on.  *)

BolTexts == {<<" ", "a", "b", "\n">>, <<"a", "b", "\n">>}
BolRunes == {"0", "^", "d", "y", "l", "h", "."}

InitBol == \E T \in BolTexts : InitWith(T)

NextBol == \E r \in BolRunes : Take(Counted(After(r)), MaxSteps)

SpecBol == InitBol /\ [][NextBol]_vars

\* where 0 and ^ lead from the cursor
BolOf(chr) ==
    IF chr = "^" THEN blkspn(eb.text, buf_bol(eb.text, cu)) ELSE buf_bol(eb.text, cu)

\* the calls of m_bol made in this step, alone or for an operator
BolCalls(ismotion) == {call \in obs'.calls : call.fn = "m_bol" /\ call.ismotion = ismotion}

\* C29 as stated: 0 and ^ alone fail when the cursor is at the place they
\* lead to.
C29_Original ==
    [][\A call \in BolCalls(FALSE) : BolOf(call.chr) = cu => call.ret /= 0]_vars

\* C29: 0 and ^ alone always succeed: docmd assigns the cursor the start of
\* the line or its first rune that is no blank, which leaves it in place
\* when it is there already, and nothing else changes.  As the motion of
\* an operator they select the runes between that place and the cursor,
\* lower offset first, and fail when there are none; the operator then
\* fails too, leaving text, yank slot and the memory of `.` alone.  A d
\* with a span that is not empty removes it.
C29_Bol ==
    [][/\ \A call \in BolCalls(FALSE) :
              /\ call.ret = 0 /\ call.beg = cu /\ call.end = BolOf(call.chr)
              /\ cu' = BolOf(call.chr)
              /\ eb' = eb /\ yannon' = yannon /\ rep' = rep /\ mode' = mode
       /\ \A call \in BolCalls(TRUE) :
              /\ call.ret = (IF BolOf(call.chr) = cu THEN 1 ELSE 0)
              /\ call.beg = Lesser(cu, BolOf(call.chr))
              /\ call.end = Greater(cu, BolOf(call.chr))
              /\ (BolOf(call.chr) = cu /\ ~Dispatched(".") =>
                     /\ eb' = eb /\ yannon' = yannon /\ cu' = cu /\ Kept)
              /\ (BolOf(call.chr) /= cu /\ Dispatched("d") =>
                     /\ eb'.text = Span(eb.text, 0, call.beg)
                                       \o Span(eb.text, call.end, Len(eb.text))
                     /\ yannon'.r = Span(eb.text, call.beg, call.end)
                     /\ cu' = call.beg)
      ]_vars

\* 0 typed in the first column: m_bol returned 0 and the cursor is where it
\* was
C29_Witness ==
    /\ obs.r = "0" /\ obs.dispatched = 1 /\ obs.disp.c.chr = "0"
    /\ cu = 0 /\ obs.steps = 1
    /\ \E call \in obs.calls :
           call.fn = "m_bol" /\ ~call.ismotion /\ call.ret = 0 /\ call.beg = 0 /\ call.end = 0

-----------------------------------------------------------------------------
(* SpecFind: finds in both directions and their repetitions, alone and as  *)
(* the motion of d, on a line where the searched rune stands three times.  *)

FindTexts == {<<"l", "b", "l", "b", "l", "\n">>}
FindRunes == {"f", "T", "l", "b", ";", ",", "d"}

InitFind == \E T \in FindTexts : InitWith(T)

NextFind == \E r \in FindRunes : Take(Counted(After(r)), MaxSteps)

SpecFind == InitFind /\ [][NextFind]_vars

\* the runes that type the remembered find again, flipped or not
FindAgain(flip) == <<IF flip THEN FlipCase(lastf.chr) ELSE lastf.chr, lastf.arg>>

RepfFailed(n) ==
    \E call \in n.obs.calls : call.fn = "m_repf" /\ call.ret = 1

\* C30: once a find was made, `;` moves the cursor, and selects for an
\* operator, as the remembered t, T, f or F typed again with its rune would,
\* and `,` as the same command with the case of its letter flipped; both
\* leave the remembered command and rune as they were, so a second `,`
\* searches in the same direction as the first; before any find both fail
\* and change nothing.  The find memory is never locked when cmd_parse has
\* returned in Command mode.
C30_RepeatFind ==
    /\ [](mode = Command /\ ~Halted => ~lastf.locked)
    /\ [](AtCommand /\ lastf.chr /= NUL =>
             /\ lastf.chr \in {"f", "F", "t", "T"}
             /\ Feed(Cur, ";").cu = FeedAll(Cur, FindAgain(FALSE)).cu
             /\ Feed(Cur, ",").cu = FeedAll(Cur, FindAgain(TRUE)).cu
             /\ Feed(Cur, ";").lastf = lastf /\ Feed(Cur, ",").lastf = lastf
             /\ FeedAll(Cur, <<",", ",">>).cu
                    = FeedAll(Cur, FindAgain(TRUE) \o FindAgain(TRUE)).cu
             /\ FeedAll(Cur, <<",", ",">>).lastf = lastf
             /\ FeedAll(Cur, <<"d", ";">>).eb = FeedAll(Cur, <<"d">> \o FindAgain(FALSE)).eb
             /\ FeedAll(Cur, <<"d", ",">>).eb = FeedAll(Cur, <<"d">> \o FindAgain(TRUE)).eb
             /\ FeedAll(Cur, <<"d", ",">>).lastf = lastf)
    /\ [](AtCommand /\ lastf.chr = NUL =>
             /\ RepfFailed(Feed(Cur, ";")) /\ RepfFailed(Feed(Cur, ","))
             /\ RepfFailed(FeedAll(Cur, <<"d", ";">>))
             /\ Feed(Cur, ";").cu = cu /\ Feed(Cur, ",").cu = cu
             /\ Feed(Cur, ";").lastf = lastf /\ Feed(Cur, ",").lastf = lastf
             /\ FeedAll(Cur, <<"d", ",">>).eb = eb
             /\ FeedAll(Cur, <<"d", ",">>).rep = rep)

\* f l, `;` and `,` twice: the second `,` went backwards like the first,
\* f and l are still remembered
C30_Witness ==
    /\ obs.r = "," /\ obs.steps = 5 /\ cu = 0
    /\ eb.text = <<"l", "b", "l", "b", "l", "\n">>
    /\ lastf = [locked |-> FALSE, chr |-> "f", arg |-> "l"]
    /\ \E call \in obs.calls :
           call.fn = "m_find" /\ call.via = "m_repf" /\ call.chr = "F" /\ call.ret = 0

-----------------------------------------------------------------------------
(* SpecRepeat: edits, undo and `.`, with counts, an operator with its      *)
(* motion and an insertion.                                                *)

RepeatTexts == {<<"a", "b", "c", "\n">>}
RepeatRunes == {"x", "u", ".", "2", "i", "d", "w", GKEsc}

InitRepeat == \E T \in RepeatTexts : InitWith(T)

NextRepeat == \E r \in RepeatRunes : Take(Counted(After(r)), MaxSteps)

SpecRepeat == InitRepeat /\ [][NextRepeat]_vars

\* C31: the remembered command is never `.`, and the assertion
\* lastc.chr != '.' of the repeat handler has never failed; the command
\* that `.` hands to docmd therefore does not take the repeat branch again.
C31_NeverRepeat ==
    /\ rep.lastc.chr /= "."
    /\ "lastc.chr != '.'" \notin obs.assert

\* a `.` with a count was dispatched after an edit and an undo; the
\* remembered command is `u`
C31_Witness ==
    /\ obs.dispatched = 1 /\ obs.disp.c.chr = "." /\ obs.disp.c.count = 2
    /\ rep.lastc.chr = "u" /\ obs.steps = 4
    /\ Len(eb.ulog) = 2

\* C32: whenever the undo direction is 1 the remembered command is `u`,
\* and the assertion redo == 0 of the repeat handler has never failed.
C32_RedoImpliesUndo ==
    /\ rep.redo = 1 => rep.lastc.chr = "u"
    /\ "redo == 0" \notin obs.assert

\* x, u and `.`: the direction is 1 after the repeated undo and the
\* remembered command is `u`
C32_Witness ==
    /\ obs.dispatched = 1 /\ obs.disp.c.chr = "." /\ obs.steps = 3
    /\ rep.lastc.chr = "u" /\ rep.redo = 1
    /\ Len(eb.ulog) = 2

-----------------------------------------------------------------------------
(* SpecProduct: counts before an operator and before its motion, among     *)
(* them 256 and 256, whose product leaves the sixteen bits, and the typed  *)
(* count 65536.                                                            *)

ProductText == <<"a", "b", "c", "d", "e", "\n">>
ProductRunes == {"2", "5", "6", "0", "d", "l"}
ProductScripts == {<<>>, <<"2", "5", "6", "d">>, <<"6", "5", "5", "3">>}

\* the largest count typed
ProductCount == 6553

InitProduct == \E rs \in ProductScripts : Is(FeedAll(InitRecord(ProductText), rs))

NextProduct ==
    \E r \in ProductRunes : TakeCounted(Counted(After(r)), MaxSteps, ProductCount)

SpecProduct == InitProduct /\ [][NextProduct]_vars

\* the count of the main fragment has just left the sixteen bits and is 0
Wrapped ==
    /\ mode = Command /\ ~Halted
    /\ isdigit(obs.r) /\ obs.dispatched = 0
    /\ parser.pcmd = "c" /\ parser.state = CmdChar /\ parser.c.count = 0

\* the state with no count typed
Uncounted == [Cur EXCEPT !.parser.state = BufferDQuote]

\* C33: an operator calls its motion with the count
\* (motion count * command count) mod 2^16: 2d2l runs l with 4, 2d3w runs
\* w with 6 and 256d256l runs l with 0.  A typed count is kept mod 2^16: after the last
\* digit of 65536 the count is 0, and 0, another digit, a motion and an
\* operator typed next are handled as with no count typed; the 0 is the
\* command `0`.
C33_Counts ==
    /\ [][(Dispatched("d") /\ obs'.disp.m.chr = "l") =>
              \E call \in obs'.calls :
                  /\ call.fn = "m_hl" /\ call.ismotion /\ call.chr = "l"
                  /\ call.count = (obs'.disp.m.count * obs'.disp.c.count) % CountMod]_vars
    /\ [](AtCommand /\ cu = 0 /\ eb.text = ProductText =>
             /\ \E call \in FeedAll(Cur, <<"2", "d", "2", "l">>).obs.calls :
                    call.fn = "m_hl" /\ call.count = 4
             /\ FeedAll(Cur, <<"2", "d", "2", "l">>).eb.text
                    = <<"e", "\n">>
             /\ \E call \in FeedAll(Cur, <<"2", "d", "3", "w">>).obs.calls :
                    call.chr = "w" /\ call.ismotion /\ call.count = 6)
    /\ [](Wrapped =>
             \A r \in {"0", "2", "l", "d"} :
                 /\ Feed(Cur, r).parser = Feed(Uncounted, r).parser
                 /\ Feed(Cur, r).cu = Feed(Uncounted, r).cu
                 /\ Feed(Cur, r).obs.disp = Feed(Uncounted, r).obs.disp
                 /\ Feed(Cur, r).obs.calls = Feed(Uncounted, r).obs.calls
                 /\ (r = "0" => \E call \in Feed(Cur, r).obs.calls : call.fn = "m_bol"))

\* 256d256l: the motion l was called with the count 0
C33_Witness ==
    /\ obs.dispatched = 1 /\ obs.disp.c = [count |-> 256, chr |-> "d", arg |-> NUL]
    /\ obs.disp.m.count = 256 /\ obs.disp.m.chr = "l"
    /\ \E call \in obs.calls : call.fn = "m_hl" /\ call.ismotion /\ call.count = 0

-----------------------------------------------------------------------------
(* The repeat count of an insertion, under SpecInsert.                     *)

\* C35: the assertion cnti != 0 at the end of an insertion has never
\* failed.  In Insert mode cnti is 1 at least: the change operator enters
\* with 1 and i, I, a, A, o, O with the count of the command; GKEsc is never
\* in the insertion log; and a `.` that repeats an insertion, with or
\* without a count of its own, ends in Command mode with no assertion
\* failed.
C35_InsertCount ==
    /\ []("cnti != 0" \notin obs.assert)
    /\ [](mode = Insert => cnti >= 1)
    /\ [](\A k \in 1..Len(lasti.buf) : lasti.buf[k] /= GKEsc)
    /\ [][(obs'.dispatched = 1 /\ obs'.disp.c.chr \in InsertKeys /\ mode' = Insert) =>
              cnti' = IF obs'.disp.c.chr = "c" THEN 1 ELSE obs'.disp.c.count]_vars
    /\ [][(Dispatched(".") /\ rep.lastc.chr \in InsertKeys) =>
              /\ obs'.assert = {} /\ mode' = Command /\ cnti' = 0]_vars

\* i, GKEsc and 2. : the insertion was repeated with the count 2 and left
C35_Witness ==
    /\ obs.dispatched = 1 /\ obs.disp.c.chr = "." /\ obs.disp.c.count = 2
    /\ rep.lastc.chr = "i" /\ rep.lastc.count = 1
    /\ mode = Command /\ cnti = 0 /\ obs.assert = {}
    /\ obs.steps = 4

-----------------------------------------------------------------------------
(* The memory of `.` across `.`, under SpecWords.                          *)

\* C36: every `.` leaves lastbuf, lastc and lastm as they were before it,
\* whatever count it was given; after dw on `foo a b c d`, 2. removes two
\* words and the plain `.` that follows removes one.
C36_RepeatKeeps ==
    /\ [][(Dispatched(".") /\ obs'.assert = {}) => Kept]_vars
    /\ [](AtCommand /\ eb.text = WordsText /\ cu = 0 =>
             /\ FeedAll(Cur, <<"d", "w", "2", ".">>).eb.text = <<"c", " ", "d", "\n">>
             /\ FeedAll(Cur, <<"d", "w", "2", ".">>).rep.lastc
                    = [count |-> 1, chr |-> "d", arg |-> NUL]
             /\ FeedAll(Cur, <<"d", "w", "2", ".">>).rep.lastm
                    = FeedAll(Cur, <<"d", "w">>).rep.lastm
             /\ FeedAll(Cur, <<"d", "w", "2", ".", ".">>).eb.text = <<"d", "\n">>)

\* dw, 3. and `.`: the count 3 was used once, the remembered counts are 1
C36_Witness ==
    /\ obs.dispatched = 1 /\ obs.disp.c.chr = "." /\ obs.disp.c.count = 0
    /\ obs.steps = 5
    /\ rep.lastc = [count |-> 1, chr |-> "d", arg |-> NUL] /\ rep.lastm.count = 1
    /\ eb.ulog = <<WordsText, <<"a", " ", "b", " ", "c", " ", "d", "\n">>,
                   <<"d", "\n">>, <<"\n">>>>

-----------------------------------------------------------------------------
(* SpecUnbound: runes that have no entry in the keys table, as the name of *)
(* the main command, among an edit, its undo and `.`.                      *)

UnboundTexts == {<<"a", "b", "c", "\n">>}
UnboundRunes == {"z", "q", "\"", "2", "x", "u", "."}

InitUnbound == \E T \in UnboundTexts : InitWith(T)

NextUnbound == \E r \in UnboundRunes : Take(Counted(After(r)), MaxSteps)

SpecUnbound == InitUnbound /\ [][NextUnbound]_vars

\* r has no entry in the keys table and no branch of its own in docmd
Unbound(r) ==
    /\ risascii(r) /\ ~isdigit(r) /\ r \notin {"u", GKEsc}
    /\ KeyFlags(r) = {} /\ KeyFn(r) = "0"

\* the rune of this step arrives as the name of the main command
MainName ==
    /\ mode = Command /\ ~Halted /\ parser.pcmd = "c"
    /\ \/ parser.state = CmdChar
       \/ parser.state = BufferDQuote /\ obs'.r /= "\""

\* C37: a rune without an entry in the keys table that arrives as the name
\* of the main command (z, q, or a double quote after a count or a buffer
\* name) is handed to docmd, which calls no handler: nothing is printed,
\* the parser is reset, buffer, cursor, mode, yank slots and lastbuf, lastc,
\* lastm stay as they were, and the undo direction is 0.  After x and u
\* such a rune makes `.` run the undo in the other direction: the x is
\* done again, where `.` right after the u leaves the text undone.
C37_UnboundName ==
    /\ [][(MainName /\ Unbound(obs'.r)) =>
              /\ obs'.dispatched = 1 /\ obs'.disp.c.chr = obs'.r
              /\ obs'.printed = 0 /\ obs'.calls = {}
              /\ ParserIsReset'
              /\ eb' = eb /\ cu' = cu /\ mode' = mode
              /\ yannon' = yannon /\ ynum' = ynum /\ ytip' = ytip
              /\ Kept /\ rep'.redo = 0]_vars
    /\ [](AtCommand /\ eb.text = <<"a", "b", "c", "\n">> /\ Len(eb.ulog) = 1 /\ cu = 0 =>
             /\ FeedAll(Cur, <<"x", "u">>).rep.redo = 1
             /\ FeedAll(Cur, <<"x", "u", ".">>).rep.redo = 1
             /\ FeedAll(Cur, <<"x", "u", ".">>).eb.text = <<"a", "b", "c", "\n">>
             /\ FeedAll(Cur, <<"x", "u", "z">>).rep.redo = 0
             /\ FeedAll(Cur, <<"x", "u", "z">>).rep.lastc.chr = "u"
             /\ FeedAll(Cur, <<"x", "u", "z", ".">>).rep.redo = 0
             /\ FeedAll(Cur, <<"x", "u", "z", ".">>).eb.text = <<"b", "c", "\n">>
             /\ FeedAll(Cur, <<"x", "u", "2", "\"", ".">>).eb.text = <<"b", "c", "\n">>)

\* x, u and z: z was dispatched, the text is the undone one and the
\* direction that u had set is 0 again
C37_Witness ==
    /\ obs.dispatched = 1 /\ obs.disp.c.chr = "z" /\ obs.printed = 0
    /\ rep.lastc.chr = "u" /\ rep.redo = 0
    /\ eb.text = <<"a", "b", "c", "\n">> /\ eb.upos = 1 /\ Len(eb.ulog) = 2

-----------------------------------------------------------------------------
(* The phases of the parser *)

Phases == {BufferDQuote, BufferName, CmdChar, CmdArg}

\* C38: no key of the table carries the flag CIsDouble, so the parser is
\* never in phase CmdDouble, whatever was typed: between two runes its phase
\* is one of BufferDQuote, BufferName, CmdChar and CmdArg, and none of the
\* names vi doubles (d, c, y) takes it to CmdDouble when typed next
C38_NoDouble ==
    /\ \A r \in Ascii : CIsDouble \notin KeyFlags(r)
    /\ parser.state \in Phases
    /\ \A r \in {"d", "c", "y"} : After(r).parser.state \in Phases

\* a buffer name and the name d were typed: the parser went through the
\* test of the flag and waits in CmdChar for the motion of d
C38_Witness ==
    /\ parser.state = CmdChar /\ parser.pcmd = "m"
    /\ parser.buf = "1" /\ parser.c.chr = "d" /\ parser.c.count = 1
    /\ obs.r = "d" /\ obs.dispatched = 0

-----------------------------------------------------------------------------
(* SpecSdl: the main thread goes through GSdlInit, GSdlNextEvent, GSdlSync  *)
(* and GSdlDeinit while the input thread runs InputThreadFn and SDL events  *)
(* arrive.  SpecSdlFair adds that the input thread is scheduled (a poll     *)
(* returns after 100 ms at most) and that a store reaches the other thread. *)

SdlTypes == {"SDL_QUIT", "SDL_TEXTINPUT", "EXPOSED", "RESIZED", "SDL_MOUSEBUTTONUP"}
Outcomes == {"SIGSEGV", "garbage"}

Backend(G) ==
    /\ gui' = G
    /\ UNCHANGED <<parser, mode, lasti, cnti, lastf, eb, cu, win, yannon, ynum, ytip, rep, obs>>

\* the window system or the user adds an event to the queue of SDL
Arrive ==
    \E t \in SdlTypes :
        /\ gui.main \in {"created", "running", "waiting"}
        /\ gui.arrived < MaxEvents /\ Len(gui.queue) < QueueCap
        /\ Backend([gui EXCEPT !.queue = Append(@, [id |-> gui.arrived + 1, type |-> t]),
                               !.arrived = @ + 1])

Init_ ==
    /\ gui.main \in {"start", "created"}
    /\ Backend(GSdlInit(gui))

NextEvent ==
    /\ gui.main = "running"
    /\ Backend(GSdlNextEvent(gui))

Sync ==
    /\ gui.main = "running"
    /\ gui.arrived < MaxEvents /\ Len(gui.queue) < QueueCap
    /\ Backend(GSdlSync(gui))

Deinit ==
    /\ gui.main = "running" \/ (gui.main = "waiting" /\ SDL_WaitThread(gui))
    /\ Backend(GSdlContextKill(gui))

InputThread ==
    /\ ~gui.exited
    /\ gui.thread \in {"poll", "check"}
    /\ \E o \in Outcomes : Backend(InputThreadFn(gui, o))

\* the store to needExit becomes visible to the input thread
Visible ==
    /\ ~gui.exited
    /\ gui.seen /= gui.needExit
    /\ Backend([gui EXCEPT !.seen = gui.needExit])

InitSdl == \E T \in Texts : InitWith(T)

NextSdl ==
    \/ ~gui.exited /\ Arrive
    \/ ~gui.exited /\ Init_
    \/ ~gui.exited /\ NextEvent
    \/ ~gui.exited /\ Sync
    \/ ~gui.exited /\ Deinit
    \/ InputThread
    \/ Visible

SpecSdl == InitSdl /\ [][NextSdl]_vars

SpecSdlFair == SpecSdl /\ WF_vars(InputThread) /\ WF_vars(Visible)

\* the bytes in the pipe are those of the events put and not yet got
InPipe ==
    LET p == gui.chan.pipe
        first == Len(gui.got)
    IN  /\ Len(p) = EventSize * (Len(gui.put) - first)
        /\ \A i \in 1..Len(p) :
               p[i] = EventBytes(gui.put[first + ((i - 1) \div EventSize) + 1])[((i - 1) % EventSize) + 1]

\* C34: the events GSdlNextEvent returns are the events put, in put order,
\* each whole and once (the k-th one returned is the k-th one put); what is
\* in the pipe is the rest of them; events are put in the order SDL
\* delivered them; and a put never makes the input thread wait: with the
\* pipe full it fails and HandleInput returns
C34_ChannelOrder ==
    /\ Len(gui.got) <= Len(gui.put)
    /\ \A k \in 1..Len(gui.got) : gui.got[k] = EventBytes(gui.put[k])
    /\ InPipe
    /\ \A j, k \in 1..Len(gui.put) : j < k => gui.put[j].id < gui.put[k].id
    /\ gui.chan.open => gui.chan.nonblock
    /\ gui.thread /= "blocked"
    /\ (gui.thread = "poll" /\ ~gui.exited) =>
           \A o \in Outcomes :
               LET G == InputThreadFn(gui, o)
               IN  G.thread = "check" \/ G.exited

\* three events were returned, and one put before the last of them found
\* the pipe full
C34_Witness ==
    /\ Len(gui.got) = 3 /\ gui.dropped = 1 /\ gui.rc = 1
    /\ gui.got[3] = EventBytes([id |-> 4, type |-> "GKey"])
    /\ gui.chan.pipe = <<>>

\* C39: once needExit is set the input thread leaves its loop (or the whole
\* process has ended in exit(0)); the channel is closed only when the thread
\* has returned, and no put or get ever meets a closed channel
C39_Shutdown ==
    /\ [](gui.main = "dead" => gui.thread = "exited" /\ ~gui.chan.open)
    /\ [](gui.thread \in {"poll", "check"} => gui.chan.open)
    /\ []("closed channel" \notin gui.fault)
    /\ (gui.needExit = 1) ~> (gui.thread = "exited" \/ gui.exited)

\* the backend was shut down with an event still in the pipe and one still
\* in the queue of SDL
C39_Witness ==
    /\ gui.main = "dead" /\ gui.thread = "exited" /\ ~gui.chan.open
    /\ gui.chan.pipe /= <<>> /\ gui.queue /= <<>> /\ gui.needExit = 1

\* C40: whenever the window-exposed handler reads globalContext, it has
\* been assigned
C40_Original == "NULL globalContext" \notin gui.fault

====
